---- MODULE Spec2Model ----
(***************************************************************************)
(* Posture monitoring core: hysteresis evaluator, angle smoother,          *)
(* multi-keypoint fusion (median) and the weighted progressive scoring,    *)
(* modelled from phase2_web_application/js/algorithms.js, constants.js     *)
(* and the posture analysis functions.                                     *)
(*                                                                         *)
(* Numbers: angles and pixel distances are integers.  Every quotient the   *)
(* code forms (weights, ratios, averages) is an exact rational [n, d] in   *)
(* lowest terms with d > 0; Math.sqrt is the rational square root rounded  *)
(* down to 1/SqrtScale.                                                    *)
(***************************************************************************)
EXTENDS Integers, Sequences, FiniteSets, TLC

VARIABLES
    hyst,       \* HysteresisEvaluator fields
    hcall,      \* last HysteresisEvaluator call: operation, arguments, result, state before
    band,       \* history: state at the start of the current run of dead-band evaluate calls
    smoother,   \* AngleSmoother fields
    scall,      \* last AngleSmoother call: operation, arguments, result
    slog,       \* history: raw (neck, torso) pairs passed to smooth since the last reset
    fcall,      \* last median / calculateAngleWithFusion call: arguments, result
    currentThresholdMode,   \* constants.js module variable
    sccall,     \* last calculatePostureScoreFront / Side call: arguments, result
    pcall,      \* per-metric score calls with one weight and threshold: the values scored so far
    localStorage,   \* the value stored under the key 'postureThresholdMode', or Missing
    mcall,      \* last start-up load / setThresholdMode call: arguments, outcome
    manager,    \* AdaptiveThresholdManager fields
    acall,      \* last AdaptiveThresholdManager call: operation, arguments, result, state before,
                \* per-entry percentages counted
    spcall,     \* last analyzeSidePosture call: frame, result
    gcall,     \* last calculateAnglePrecise call: the three points, result
    fpcall,     \* last analyzeFrontPosture call: frame, threshold arguments, result
    dcall,     \* last RehabilitationDashboard.getCurrentRehabStage call: history, result
    alert,     \* alert system: bad-posture timer (frames), lastAlertTimeRef, shouldAlert, alertInterval
    clock,     \* Date.now(), in milliseconds
    alog,     \* history: the last two alerts delivered (time, level, bad time, caller)
    postureHistory,     \* the value stored under the key 'postureHistory'
    historyState,     \* the history list held by the caller (set by setHistory)
    today,     \* the current date, in whole days
    hscall,     \* last loadHistory / saveHistory / deleteRecord call: arguments, outcome, state before
    milestones,     \* RehabilitationDashboard.milestones
    rehab_milestones,     \* the value stored under the key 'rehab_milestones'
    mlcall      \* last RehabilitationDashboard call: operation, history, outcome, milestones before

vars ==
    <<hyst, hcall, band, smoother, scall, slog, fcall, currentThresholdMode, sccall, pcall,
      localStorage, mcall, manager, acall, spcall,
      gcall,
      fpcall,
      dcall,
      alert,
      clock,
      alog,
      postureHistory,
      historyState,
      today,
      hscall,
      milestones,
      rehab_milestones,
      mlcall>>

-----------------------------------------------------------------------------
(* Exact rational arithmetic *)

Abs(x) == IF x < 0 THEN -x ELSE x

RECURSIVE GCD(_, _)
GCD(a, b) == IF b = 0 THEN a ELSE GCD(b, a % b)

\* n / d in lowest terms, d > 0
Rat(n, d) ==
    LET g == GCD(Abs(n), Abs(d))
        s == IF d < 0 THEN -1 ELSE 1
    IN  [n |-> (s * n) \div g, d |-> (s * d) \div g]

RatInt(k) == [n |-> k, d |-> 1]
RatNeg(a) == [n |-> -a.n, d |-> a.d]
\* sums over the least common denominator, products reduced crosswise first
RatAdd(a, b) ==
    LET l == (a.d \div GCD(a.d, b.d)) * b.d
    IN  Rat(a.n * (l \div a.d) + b.n * (l \div b.d), l)
RatSub(a, b) == RatAdd(a, RatNeg(b))
RatMul(a, b) ==
    LET g1 == GCD(Abs(a.n), b.d)
        g2 == GCD(Abs(b.n), a.d)
    IN  Rat((a.n \div g1) * (b.n \div g2), (a.d \div g2) * (b.d \div g1))
RatDiv(a, b) == RatMul(a, IF b.n < 0 THEN [n |-> -b.d, d |-> -b.n] ELSE [n |-> b.d, d |-> b.n])
RatLt(a, b) == a.n * b.d < b.n * a.d
RatLe(a, b) == a.n * b.d <= b.n * a.d
RatMin(a, b) == IF RatLt(b, a) THEN b ELSE a

-----------------------------------------------------------------------------
(* constants.js *)

DEFAULT_NECK_THRESHOLD == 40
DEFAULT_TORSO_THRESHOLD == 15
HYSTERESIS_VALUE == 2

ModeNames == {"standard", "sciRelaxed", "sciStrict"}

SCI_THRESHOLDS ==
    [m \in ModeNames |->
        CASE m = "standard" ->
                [neck |-> 40, torso |-> 15, shoulder |-> 30, hip |-> 25, head |-> 25,
                 weightedScoreThreshold |-> Rat(70, 100)]
          [] m = "sciRelaxed" ->
                [neck |-> 50, torso |-> 25, shoulder |-> 40, hip |-> 35, head |-> 35,
                 weightedScoreThreshold |-> Rat(60, 100)]
          [] m = "sciStrict" ->
                [neck |-> 45, torso |-> 20, shoulder |-> 35, hip |-> 30, head |-> 30,
                 weightedScoreThreshold |-> Rat(65, 100)]]

\* SCI_THRESHOLDS is an object literal: besides its own three keys a lookup finds the
\* properties it inherits from Object.prototype (two of their names stand for all)
InheritedNames == {"constructor", "toString"}

\* what SCI_THRESHOLDS[name] evaluates to for an inherited name: a function, none of
\* whose profile fields is defined
InheritedValue == [inherited |-> TRUE]

\* SCI_THRESHOLDS[name] is truthy
hasThresholds(name) == name \in ModeNames \cup InheritedNames

getCurrentThresholds ==
    IF currentThresholdMode \in ModeNames THEN SCI_THRESHOLDS[currentThresholdMode]
    ELSE IF currentThresholdMode \in InheritedNames THEN InheritedValue
    ELSE SCI_THRESHOLDS["standard"]

-----------------------------------------------------------------------------
(* Bounds *)

MaxHysteresis == 2      \* hysteresis margins 0..MaxHysteresis
MaxNeckAngle == 54      \* neck angles fed to evaluate
MaxTorsoAngle == 29     \* torso angles fed to evaluate
MaxRun == 5             \* cap of the counted length of a dead-band run

NeckAngles == {0} \cup (36 .. MaxNeckAngle)
TorsoAngles == {0} \cup (11 .. MaxTorsoAngle)

\* threshold pairs the evaluator is constructed or updated with: the profiles' limits
ThresholdPairs == {<<SCI_THRESHOLDS[m].neck, SCI_THRESHOLDS[m].torso>> : m \in ModeNames}

-----------------------------------------------------------------------------
(* HysteresisEvaluator (algorithms.js) *)

HystNew(neckThreshold, torsoThreshold, hysteresis) ==
    [neckThreshold |-> neckThreshold, torsoThreshold |-> torsoThreshold,
     hysteresis |-> hysteresis, currentState |-> "good"]

\* evaluate with the upper edge compared by > instead of >=
evaluateStrictUpper(h, neckAngle, torsoAngle) ==
    IF h.currentState = "good"
    THEN IF \/ neckAngle > h.neckThreshold + h.hysteresis
            \/ torsoAngle > h.torsoThreshold + h.hysteresis
         THEN [currentState |-> "bad", ret |-> FALSE]
         ELSE [currentState |-> "good", ret |-> TRUE]
    ELSE IF /\ neckAngle < h.neckThreshold - h.hysteresis
            /\ torsoAngle < h.torsoThreshold - h.hysteresis
         THEN [currentState |-> "good", ret |-> TRUE]
         ELSE [currentState |-> "bad", ret |-> FALSE]

\* evaluate recovering when either angle is below its lower edge
evaluateRecoverEither(h, neckAngle, torsoAngle) ==
    IF h.currentState = "good"
    THEN IF \/ neckAngle >= h.neckThreshold + h.hysteresis
            \/ torsoAngle >= h.torsoThreshold + h.hysteresis
         THEN [currentState |-> "bad", ret |-> FALSE]
         ELSE [currentState |-> "good", ret |-> TRUE]
    ELSE IF \/ neckAngle < h.neckThreshold - h.hysteresis
            \/ torsoAngle < h.torsoThreshold - h.hysteresis
         THEN [currentState |-> "good", ret |-> TRUE]
         ELSE [currentState |-> "bad", ret |-> FALSE]

\* evaluate without the dead band: both edges at the threshold itself
evaluateNoBand(h, neckAngle, torsoAngle) ==
    IF h.currentState = "good"
    THEN IF \/ neckAngle >= h.neckThreshold
            \/ torsoAngle >= h.torsoThreshold
         THEN [currentState |-> "bad", ret |-> FALSE]
         ELSE [currentState |-> "good", ret |-> TRUE]
    ELSE IF /\ neckAngle < h.neckThreshold
            /\ torsoAngle < h.torsoThreshold
         THEN [currentState |-> "good", ret |-> TRUE]
         ELSE [currentState |-> "bad", ret |-> FALSE]

\* evaluate returning the state it found instead of the state it leaves
evaluateStaleReturn(h, neckAngle, torsoAngle) ==
    IF h.currentState = "good"
    THEN IF \/ neckAngle >= h.neckThreshold + h.hysteresis
            \/ torsoAngle >= h.torsoThreshold + h.hysteresis
         THEN [currentState |-> "bad", ret |-> TRUE]
         ELSE [currentState |-> "good", ret |-> TRUE]
    ELSE IF /\ neckAngle < h.neckThreshold - h.hysteresis
            /\ torsoAngle < h.torsoThreshold - h.hysteresis
         THEN [currentState |-> "good", ret |-> FALSE]
         ELSE [currentState |-> "bad", ret |-> FALSE]

\* the new state and the returned value of evaluate(neckAngle, torsoAngle)
evaluate(h, neckAngle, torsoAngle) ==
    IF h.currentState = "good"
    THEN IF \/ neckAngle >= h.neckThreshold + h.hysteresis
            \/ torsoAngle >= h.torsoThreshold + h.hysteresis
         THEN [currentState |-> "bad", ret |-> FALSE]
         ELSE [currentState |-> "good", ret |-> TRUE]
    ELSE IF /\ neckAngle < h.neckThreshold - h.hysteresis
            /\ torsoAngle < h.torsoThreshold - h.hysteresis
         THEN [currentState |-> "good", ret |-> TRUE]
         ELSE [currentState |-> "bad", ret |-> FALSE]

\* updateThresholds that also resets the state
updateThresholdsResetting(h, neckThreshold, torsoThreshold) ==
    [h EXCEPT !.neckThreshold = neckThreshold, !.torsoThreshold = torsoThreshold,
              !.currentState = "good"]

updateThresholds(h, neckThreshold, torsoThreshold) ==
    [h EXCEPT !.neckThreshold = neckThreshold, !.torsoThreshold = torsoThreshold]

hystReset(h) == [h EXCEPT !.currentState = "good"]

\* the inputs lie in the dead band of h: below both upper edges, neck at or above its
\* lower edge
InBand(h, neckAngle, torsoAngle) ==
    /\ neckAngle >= h.neckThreshold - h.hysteresis
    /\ neckAngle < h.neckThreshold + h.hysteresis
    /\ torsoAngle < h.torsoThreshold + h.hysteresis

NoBand == [start |-> "none", len |-> 0]

NoHystCall == [op |-> "new", neck |-> 0, torso |-> 0, ret |-> TRUE, pre |-> "good"]

Evaluate(neckAngle, torsoAngle) ==
    LET r == evaluate(hyst, neckAngle, torsoAngle) IN
    /\ hyst' = [hyst EXCEPT !.currentState = r.currentState]
    /\ hcall' = [op |-> "evaluate", neck |-> neckAngle, torso |-> torsoAngle,
                 ret |-> r.ret, pre |-> hyst.currentState]
    /\ band' = IF ~InBand(hyst, neckAngle, torsoAngle) THEN NoBand
               ELSE IF band.start = "none"
                    THEN [start |-> hyst.currentState, len |-> 1]
                    ELSE [band EXCEPT !.len = IF @ < MaxRun THEN @ + 1 ELSE @]
    /\ UNCHANGED <<smoother, scall, slog, fcall, currentThresholdMode, sccall,
                   pcall, localStorage, mcall, manager, acall, spcall, gcall, fpcall, dcall, alert, clock, alog, postureHistory, historyState, today, hscall, milestones, rehab_milestones, mlcall>>

UpdateThresholds(neckThreshold, torsoThreshold) ==
    /\ hyst' = updateThresholds(hyst, neckThreshold, torsoThreshold)
    /\ hcall' = [op |-> "updateThresholds", neck |-> neckThreshold, torso |-> torsoThreshold,
                 ret |-> TRUE, pre |-> hyst.currentState]
    /\ band' = NoBand
    /\ UNCHANGED <<smoother, scall, slog, fcall, currentThresholdMode, sccall,
                   pcall, localStorage, mcall, manager, acall, spcall, gcall, fpcall, dcall, alert, clock, alog, postureHistory, historyState, today, hscall, milestones, rehab_milestones, mlcall>>

HystReset ==
    /\ hyst' = hystReset(hyst)
    /\ hcall' = [op |-> "reset", neck |-> 0, torso |-> 0, ret |-> TRUE,
                 pre |-> hyst.currentState]
    /\ band' = NoBand
    /\ UNCHANGED <<smoother, scall, slog, fcall, currentThresholdMode, sccall,
                   pcall, localStorage, mcall, manager, acall, spcall, gcall, fpcall, dcall, alert, clock, alog, postureHistory, historyState, today, hscall, milestones, rehab_milestones, mlcall>>

-----------------------------------------------------------------------------
(* AngleSmoother (algorithms.js) *)

MaxWindow == 3          \* window sizes 1..MaxWindow
MaxCalls == 4           \* smooth calls between two resets

RawNeck == {10, 20, 30}
RawTorso == {5, 15}

RECURSIVE SumTo(_)
\* weights.reduce((a, b) => a + b, 0) over the weights 1, 2, ..., length
SumTo(length) == IF length = 0 THEN 0 ELSE SumTo(length - 1) + length

\* generateWeights giving every sample the same weight
generateWeightsUniform(length) == [i \in 1 .. length |-> Rat(1, length)]

\* weights i / (1 + 2 + ... + length), oldest sample first
generateWeights(length) == [i \in 1 .. length |-> Rat(i, SumTo(length))]

RECURSIVE weightedAverageUpTo(_, _, _)
\* values.reduce((sum, val, i) => sum + val * weights[i], 0), the first k terms
weightedAverageUpTo(values, weights, k) ==
    IF k = 0 THEN RatInt(0)
    ELSE RatAdd(weightedAverageUpTo(values, weights, k - 1),
                RatMul(RatInt(values[k]), weights[k]))

weightedAverage(values, weights) == weightedAverageUpTo(values, weights, Len(values))

SmootherNew(windowSize) ==
    [windowSize |-> windowSize, neckHistory |-> <<>>, torsoHistory |-> <<>>]

\* drops the newest sample (pop) where the code drops the oldest (shift)
shiftNewest(history) == SubSeq(history, 1, Len(history) - 1)

\* Array.prototype.shift: drops the oldest sample
shift(history) == Tail(history)

\* the windows after smooth(neckAngle, torsoAngle) has pushed and trimmed
pushed(s, neckAngle, torsoAngle) ==
    LET n1 == Append(s.neckHistory, neckAngle)
        t1 == Append(s.torsoHistory, torsoAngle)
    IN  IF Len(n1) > s.windowSize
        THEN [s EXCEPT !.neckHistory = shift(n1), !.torsoHistory = shift(t1)]
        ELSE [s EXCEPT !.neckHistory = n1, !.torsoHistory = t1]

\* the value smooth(neckAngle, torsoAngle) returns, s being the windows after the push
smoothed(s, neckAngle, torsoAngle) ==
    IF Len(s.neckHistory) > 0
    THEN LET weights == generateWeights(Len(s.neckHistory))
         IN  [neck |-> weightedAverage(s.neckHistory, weights),
              torso |-> weightedAverage(s.torsoHistory, weights)]
    ELSE [neck |-> RatInt(neckAngle), torso |-> RatInt(torsoAngle)]

\* reset that keeps the newest sample of each window
smootherResetKeepLast(s) ==
    [s EXCEPT !.neckHistory = IF @ = <<>> THEN @ ELSE <<@[Len(@)]>>,
              !.torsoHistory = IF @ = <<>> THEN @ ELSE <<@[Len(@)]>>]

smootherReset(s) == [s EXCEPT !.neckHistory = <<>>, !.torsoHistory = <<>>]

NoSmoothCall ==
    [op |-> "new", neck |-> 0, torso |-> 0,
     ret |-> [neck |-> RatInt(0), torso |-> RatInt(0)], since |-> "new"]

Smooth(neckAngle, torsoAngle) ==
    /\ Len(slog) < MaxCalls
    /\ LET s == pushed(smoother, neckAngle, torsoAngle) IN
        /\ smoother' = s
        /\ scall' = [op |-> "smooth", neck |-> neckAngle, torso |-> torsoAngle,
                     ret |-> smoothed(s, neckAngle, torsoAngle), since |-> scall.since]
    /\ slog' = Append(slog, <<neckAngle, torsoAngle>>)
    /\ UNCHANGED <<hyst, hcall, band, fcall, currentThresholdMode, sccall,
                   pcall, localStorage, mcall, manager, acall, spcall, gcall, fpcall, dcall, alert, clock, alog, postureHistory, historyState, today, hscall, milestones, rehab_milestones, mlcall>>

SmootherReset ==
    /\ smoother' = smootherReset(smoother)
    /\ scall' = [op |-> "reset", neck |-> 0, torso |-> 0,
                 ret |-> [neck |-> RatInt(0), torso |-> RatInt(0)],
                 since |-> IF slog = <<>> THEN scall.since ELSE "reset"]
    /\ slog' = <<>>
    /\ UNCHANGED <<hyst, hcall, band, fcall, currentThresholdMode, sccall,
                   pcall, localStorage, mcall, manager, acall, spcall, gcall, fpcall, dcall, alert, clock, alog, postureHistory, historyState, today, hscall, milestones, rehab_milestones, mlcall>>

-----------------------------------------------------------------------------
(* Multi-keypoint fusion: median, calculateAngleWithFusion (posture analysis functions) *)
(* calculateAnglePrecise is not computed here: a frame carries, for each pair of     *)
(* landmarks a method uses, the angle calculateAnglePrecise returns for that pair.   *)

MaxArr == 3             \* length of the arrays passed to median directly

EstValues == {0, 20, 22, 95}        \* angles calculateAnglePrecise returns
ArrValues == {-1} \cup EstValues    \* array elements passed to median

RECURSIVE insertSorted(_, _)
insertSorted(sorted, v) ==
    IF sorted = <<>> THEN <<v>>
    ELSE IF v - Head(sorted) < 0 THEN <<v>> \o sorted
    ELSE <<Head(sorted)>> \o insertSorted(Tail(sorted), v)

RECURSIVE sortAscending(_)
\* arr.sort((a, b) => a - b)
sortAscending(arr) ==
    IF arr = <<>> THEN <<>>
    ELSE insertSorted(sortAscending(SubSeq(arr, 1, Len(arr) - 1)), arr[Len(arr)])

IsPositive(v) == v > 0

\* median that skips the filter, so zeros enter the middle
medianUnfiltered(arr) ==
    IF Len(arr) = 0 THEN RatInt(0)
    ELSE LET sorted == sortAscending(arr)
             mid == Len(sorted) \div 2
         IN  IF Len(sorted) = 0 THEN RatInt(0)
             ELSE IF Len(sorted) % 2 = 0
                  THEN RatDiv(RatInt(sorted[mid] + sorted[mid + 1]), RatInt(2))
                  ELSE RatInt(sorted[mid + 1])

\* sorted is 1-indexed here: the code's sorted[mid - 1], sorted[mid] are sorted[mid],
\* sorted[mid + 1]
median(arr) ==
    IF Len(arr) = 0 THEN RatInt(0)
    ELSE LET sorted == sortAscending(SelectSeq(arr, IsPositive))
             mid == Len(sorted) \div 2
         IN  IF Len(sorted) = 0 THEN RatInt(0)
             ELSE IF Len(sorted) % 2 = 0
                  THEN RatDiv(RatInt(sorted[mid] + sorted[mid + 1]), RatInt(2))
                  ELSE RatInt(sorted[mid + 1])

MIN_LANDMARK_VISIBILITY == 5    \* 0.5, visibilities in tenths

Visibilities == {5, 6}          \* at the minimum (not valid), above it (valid)

\* landmark && landmark.visibility > minVisibility; visibility 0 stands for a missing entry
isLandmarkValid(visibility) == visibility > MIN_LANDMARK_VISIBILITY

LandmarkNames == {"lShoulder", "rShoulder", "lEar", "rEar", "nose", "lHip", "rHip"}
NeckMethods == <<"lShoulderEar", "rShoulderEar", "lShoulderNose">>
TorsoMethods == <<"lHipShoulder", "rHipShoulder">>

\* the landmarks a method reads
MethodLandmarks(m) ==
    CASE m = "lShoulderEar" -> {"lShoulder", "lEar"}
      [] m = "rShoulderEar" -> {"rShoulder", "rEar"}
      [] m = "lShoulderNose" -> {"lShoulder", "nose"}
      [] m = "lHipShoulder" -> {"lHip", "lShoulder"}
      [] m = "rHipShoulder" -> {"rHip", "rShoulder"}

\* the angle one method pushes, as a sequence of zero or one element
methodAngles(frame, m, needsHipBelow) ==
    IF /\ \A l \in MethodLandmarks(m) : isLandmarkValid(frame.visibility[l])
       /\ needsHipBelow => frame.hipBelow[m]
       /\ frame.angle[m] > 0
    THEN <<frame.angle[m]>>
    ELSE <<>>

\* the array calculateAngleWithFusion hands to median
fusionAngles(frame, angleType) ==
    IF angleType = "neck"
    THEN methodAngles(frame, NeckMethods[1], FALSE)
            \o methodAngles(frame, NeckMethods[2], FALSE)
            \o methodAngles(frame, NeckMethods[3], FALSE)
    ELSE IF angleType = "torso"
    THEN methodAngles(frame, TorsoMethods[1], TRUE)
            \o methodAngles(frame, TorsoMethods[2], TRUE)
    ELSE <<>>

calculateAngleWithFusion(frame, angleType) == median(fusionAngles(frame, angleType))

AllMethods == {"lShoulderEar", "rShoulderEar", "lShoulderNose", "lHipShoulder", "rHipShoulder"}

\* frames that differ only in what the methods of angleType read
Frames(angleType) ==
    LET ms == IF angleType = "neck" THEN {NeckMethods[i] : i \in 1 .. 3}
              ELSE {TorsoMethods[i] : i \in 1 .. 2}
        ls == UNION {MethodLandmarks(m) : m \in ms}
    IN  {[visibility |-> [l \in LandmarkNames |-> IF l \in ls THEN v[l] ELSE 0],
          hipBelow |-> [m \in AllMethods |-> IF angleType = "torso" /\ m \in ms
                                              THEN b[m] ELSE FALSE],
          angle |-> [m \in AllMethods |-> IF m \in ms THEN a[m] ELSE 0]] :
            v \in [ls -> Visibilities], b \in [ms -> BOOLEAN], a \in [ms -> EstValues]}

\* the estimate of each method of angleType, 0 where the method has none
Estimates(frame, angleType) ==
    LET ms == IF angleType = "neck" THEN NeckMethods ELSE TorsoMethods
    IN  [i \in 1 .. Len(ms) |->
            IF /\ \A l \in MethodLandmarks(ms[i]) :
                        frame.visibility[l] > MIN_LANDMARK_VISIBILITY
               /\ angleType = "torso" => frame.hipBelow[ms[i]]
            THEN frame.angle[ms[i]] ELSE 0]

NoFrame ==
    [visibility |-> [l \in LandmarkNames |-> 0], hipBelow |-> [m \in AllMethods |-> FALSE],
     angle |-> [m \in AllMethods |-> 0]]

NoFusionCall ==
    [op |-> "idle", fn |-> "median", arr |-> <<>>, frame |-> NoFrame, est |-> <<>>,
     ret |-> RatInt(0)]

Arrays == UNION {[1 .. k -> ArrValues] : k \in 0 .. MaxArr}

\* the calls about to be made: median on an array, or fusion on a frame
FusionCalls ==
    {[NoFusionCall EXCEPT !.op = "call", !.arr = arr] : arr \in Arrays}
        \cup {[NoFusionCall EXCEPT !.op = "call", !.fn = t, !.frame = f] :
                t \in {"neck"}, f \in Frames("neck")}
        \cup {[NoFusionCall EXCEPT !.op = "call", !.fn = t, !.frame = f] :
                t \in {"torso"}, f \in Frames("torso")}

\* median(arr) called directly
Median ==
    /\ fcall.op = "call" /\ fcall.fn = "median"
    /\ fcall' = [fcall EXCEPT !.op = "done", !.est = fcall.arr, !.ret = median(fcall.arr)]
    /\ UNCHANGED <<hyst, hcall, band, smoother, scall, slog, currentThresholdMode, sccall,
                   pcall, localStorage, mcall, manager, acall, spcall, gcall, fpcall, dcall, alert, clock, alog, postureHistory, historyState, today, hscall, milestones, rehab_milestones, mlcall>>

Fusion ==
    /\ fcall.op = "call" /\ fcall.fn \in {"neck", "torso"}
    /\ fcall' = [fcall EXCEPT !.op = "done", !.est = Estimates(fcall.frame, fcall.fn),
                              !.ret = calculateAngleWithFusion(fcall.frame, fcall.fn)]
    /\ UNCHANGED <<hyst, hcall, band, smoother, scall, slog, currentThresholdMode, sccall,
                   pcall, localStorage, mcall, manager, acall, spcall, gcall, fpcall, dcall, alert, clock, alog, postureHistory, historyState, today, hscall, milestones, rehab_milestones, mlcall>>

-----------------------------------------------------------------------------
(* calculateAnglePrecise (utils.js) *)
(* Points have whole coordinates on a small grid, where every angle is a     *)
(* multiple of 45 degrees and a magnitude is below 1e-6 only when it is 0.   *)

\* a point that is not there
Undefined == [undefined |-> TRUE]

\* the angle at p1 between p1->p2 and p1->p3, in degrees
calculateAnglePrecise(p1, p2, p3) ==
    \* reading .x of an undefined point raises inside the try block
    IF Undefined \in {p1, p2, p3} THEN 0
    ELSE LET v1 == [x |-> p2.x - p1.x, y |-> p2.y - p1.y]
             v2 == [x |-> p3.x - p1.x, y |-> p3.y - p1.y]
             mag1Sq == v1.x * v1.x + v1.y * v1.y
             mag2Sq == v2.x * v2.x + v2.y * v2.y
             dot == v1.x * v2.x + v1.y * v2.y
             cross == v1.x * v2.y - v1.y * v2.x
         IN  IF mag1Sq = 0 \/ mag2Sq = 0 THEN 0
             \* acos(dot / (mag1 * mag2)), rounded to a tenth of a degree
             ELSE IF cross = 0 THEN (IF dot > 0 THEN 0 ELSE 180)
             ELSE IF dot = 0 THEN 90
             ELSE IF dot > 0 THEN 45
             ELSE 135

GridCoords == {0, 1}

GridPoints == [x : GridCoords, y : GridCoords]

NoAngleCall == [op |-> "idle", p1 |-> Undefined, p2 |-> Undefined, p3 |-> Undefined, ret |-> 0]

AngleCalls ==
    {[op |-> "call", p1 |-> a, p2 |-> b, p3 |-> c, ret |-> 0] :
        a \in GridPoints \cup {Undefined}, b \in GridPoints \cup {Undefined},
        c \in GridPoints \cup {Undefined}}

CalculateAnglePrecise ==
    /\ gcall.op = "call"
    /\ gcall' = [gcall EXCEPT !.op = "done",
                   !.ret = calculateAnglePrecise(gcall.p1, gcall.p2, gcall.p3)]
    /\ UNCHANGED <<hyst, hcall, band, smoother, scall, slog, fcall, currentThresholdMode,
                   sccall, pcall, localStorage, mcall, manager, acall, spcall, fpcall, dcall, alert, clock, alog, postureHistory, historyState, today, hscall, milestones, rehab_milestones, mlcall>>

-----------------------------------------------------------------------------
(* Weighted progressive scoring (posture analysis functions) *)

SqrtScale == 1000       \* Math.sqrt is rounded down to a multiple of 1/SqrtScale

RECURSIVE ISqrtIn(_, _, _)
\* the largest r in lo..hi with r * r <= x
ISqrtIn(x, lo, hi) ==
    IF lo >= hi THEN lo
    ELSE LET mid == (lo + hi + 1) \div 2
         IN  IF mid * mid <= x THEN ISqrtIn(x, mid, hi) ELSE ISqrtIn(x, lo, mid - 1)

ISqrt(x) == ISqrtIn(x, 0, IF x < 46340 THEN x ELSE 46340)

\* Math.sqrt of a non-negative rational
RatSqrt(r) == Rat(ISqrt((r.n * SqrtScale * SqrtScale) \div r.d), SqrtScale)

\* Math.round(x) of a non-negative rational
RatRound(r) == (2 * r.n + r.d) \div (2 * r.d)

One == RatInt(1)

\* the value of 0 / 0 and of every operation on it; also the value of a score
\* computed from an undefined threshold
NaN == [n |-> 0, d |-> 0]

\* a + b of two numbers either of which may be NaN
NumAdd(a, b) == IF a = NaN \/ b = NaN THEN NaN ELSE RatAdd(a, b)

\* Math.round(x * 100) of a number that may be NaN
NumPercent(x) == IF x = NaN THEN NaN ELSE RatRound(RatMul(x, RatInt(100)))

\* a >= b of two numbers either of which may be NaN: false when one is
NumGe(a, b) == a # NaN /\ b # NaN /\ RatLe(b, a)

\* the weights object of calculatePostureScoreFront after the re-normalisation branch
frontWeights(isSCIMode, hasSpinalData) ==
    LET w == IF isSCIMode
             THEN [shoulder |-> Rat(30, 100), hip |-> Rat(30, 100), head |-> Rat(25, 100),
                   spinal |-> Rat(15, 100)]
             ELSE [shoulder |-> Rat(35, 100), hip |-> Rat(30, 100), head |-> Rat(20, 100),
                   spinal |-> Rat(15, 100)]
        totalWeight == RatAdd(RatAdd(w.shoulder, w.hip), w.head)
    IN  IF ~hasSpinalData
        THEN [shoulder |-> RatDiv(w.shoulder, totalWeight), hip |-> RatDiv(w.hip, totalWeight),
              head |-> RatDiv(w.head, totalWeight), spinal |-> RatInt(0)]
        ELSE w

\* calculateProgressiveScore with the penalty ratio left unclamped
calculateProgressiveScoreUnclamped(value, threshold, weight) ==
    IF value < threshold
    THEN LET ratio == Rat(value, threshold)
             bonus == IF RatLt(ratio, Rat(7, 10)) THEN One
                      ELSE RatSub(One, RatMul(RatDiv(RatSub(ratio, Rat(7, 10)), Rat(3, 10)),
                                              Rat(1, 10)))
         IN  RatMul(weight, bonus)
    ELSE LET excess == value - threshold
             excessRatio == Rat(excess, threshold)
             penaltyRatio == RatSqrt(RatMul(excessRatio, RatInt(2)))
         IN  RatMul(weight, RatSub(One, penaltyRatio))

calculateProgressiveScore(value, threshold, weight) ==
    IF value < threshold
    THEN LET ratio == Rat(value, threshold)
             bonus == IF RatLt(ratio, Rat(7, 10)) THEN One
                      ELSE RatSub(One, RatMul(RatDiv(RatSub(ratio, Rat(7, 10)), Rat(3, 10)),
                                              Rat(1, 10)))
         IN  RatMul(weight, bonus)
    ELSE LET excess == value - threshold
         IN  IF threshold = 0
             \* excess / 0 is NaN for excess 0, and Math.min(NaN, 1) is NaN;
             \* it is Infinity for excess > 0, and Math.min(Infinity, 1) is 1
             THEN IF excess = 0 THEN NaN ELSE RatMul(weight, RatSub(One, One))
             ELSE LET excessRatio == Rat(excess, threshold)
                      penaltyRatio == RatMin(RatSqrt(RatMul(excessRatio, RatInt(2))), One)
                  IN  RatMul(weight, RatSub(One, penaltyRatio))

\* a threshold that is undefined or 0 is falsy; 0 stands for both
Truthy(x) == x # 0

\* the metrics calculatePostureScoreFront scores
frontScored(metrics, thresholds) ==
    {"shoulder", "hip", "head"}
        \cup (IF metrics.hasSpinal /\ Truthy(thresholds.spinal) THEN {"spinal"} ELSE {})

calculatePostureScoreFront(metrics, thresholds, isSCIMode) ==
    LET weights == frontWeights(isSCIMode, metrics.hasSpinal)
        value == [shoulder |-> metrics.shoulderTilt, hip |-> metrics.hipTilt,
                  head |-> metrics.headTilt, spinal |-> metrics.spinalCurvature]
        breakdown == [m \in frontScored(metrics, thresholds) |->
                        calculateProgressiveScore(value[m], thresholds[m], weights[m])]
        s3 == NumAdd(NumAdd(NumAdd(RatInt(0), breakdown["shoulder"]), breakdown["hip"]),
                     breakdown["head"])
        score == IF "spinal" \in DOMAIN breakdown THEN NumAdd(s3, breakdown["spinal"]) ELSE s3
        thresholdConfig == getCurrentThresholds
        \* score >= undefined is false
        isGood == IF "weightedScoreThreshold" \in DOMAIN thresholdConfig
                  THEN NumGe(score, thresholdConfig.weightedScoreThreshold)
                  ELSE FALSE
    IN  [score |-> score, isGood |-> isGood, breakdown |-> breakdown,
         percentage |-> NumPercent(score), weights |-> weights]

sideWeights(isSCIMode) ==
    IF isSCIMode THEN [neck |-> Rat(45, 100), torso |-> Rat(55, 100)]
    ELSE [neck |-> Rat(50, 100), torso |-> Rat(50, 100)]

\* calculateAngleProgressiveScore with the constants of the front-view curve
calculateAngleProgressiveScoreFrontCurve(value, threshold, weight) ==
    IF value < threshold
    THEN LET ratio == Rat(value, threshold)
             bonus == IF RatLt(ratio, Rat(7, 10)) THEN One
                      ELSE RatSub(One, RatMul(RatDiv(RatSub(ratio, Rat(7, 10)), Rat(3, 10)),
                                              Rat(1, 10)))
         IN  RatMul(weight, bonus)
    ELSE LET excess == value - threshold
             excessRatio == Rat(excess, threshold)
             penaltyRatio == RatMin(RatSqrt(RatMul(excessRatio, RatInt(2))), One)
         IN  RatMul(weight, RatSub(One, penaltyRatio))

\* calculateAngleProgressiveScore that gives the whole weight anywhere below the threshold
calculateAngleProgressiveScoreFlat(value, threshold, weight) ==
    IF value < threshold
    THEN RatMul(weight, One)
    ELSE LET excess == value - threshold
             excessRatio == Rat(excess, threshold)
             penaltyRatio == RatMin(RatSqrt(RatMul(excessRatio, Rat(15, 10))), One)
         IN  RatMul(weight, RatSub(One, penaltyRatio))

calculateAngleProgressiveScore(value, threshold, weight) ==
    IF value < threshold
    THEN LET ratio == Rat(value, threshold)
             bonus == IF RatLt(ratio, Rat(75, 100)) THEN One
                      ELSE RatSub(One, RatMul(RatDiv(RatSub(ratio, Rat(75, 100)), Rat(25, 100)),
                                              Rat(15, 100)))
         IN  RatMul(weight, bonus)
    ELSE LET excess == value - threshold
         IN  IF threshold = 0
             \* excess / 0 is NaN for excess 0, and Math.min(NaN, 1) is NaN;
             \* it is Infinity for excess > 0, and Math.min(Infinity, 1) is 1
             THEN IF excess = 0 THEN NaN ELSE RatMul(weight, RatSub(One, One))
             ELSE LET excessRatio == Rat(excess, threshold)
                      penaltyRatio == RatMin(RatSqrt(RatMul(excessRatio, Rat(15, 10))), One)
                  IN  RatMul(weight, RatSub(One, penaltyRatio))

\* calculatePostureScoreSide that accepts at the ratio of the active profile
calculatePostureScoreSideProfileRatio(metrics, thresholds, isSCIMode) ==
    LET weights == sideWeights(isSCIMode)
        breakdown == [neck |-> calculateAngleProgressiveScore(metrics.neckAngle,
                                    thresholds.neck, weights.neck),
                      torso |-> calculateAngleProgressiveScore(metrics.torsoAngle,
                                    thresholds.torso, weights.torso)]
        score == RatAdd(RatAdd(RatInt(0), breakdown.neck), breakdown.torso)
        thresholdConfig == getCurrentThresholds
        isGood == IF "weightedScoreThreshold" \in DOMAIN thresholdConfig
                  THEN RatLe(thresholdConfig.weightedScoreThreshold, score)
                  ELSE FALSE
    IN  [score |-> score, isGood |-> isGood, breakdown |-> breakdown,
         percentage |-> RatRound(RatMul(score, RatInt(100))), weights |-> weights]

calculatePostureScoreSide(metrics, thresholds, isSCIMode) ==
    LET weights == sideWeights(isSCIMode)
        breakdown == [neck |-> calculateAngleProgressiveScore(metrics.neckAngle,
                                    thresholds.neck, weights.neck),
                      torso |-> calculateAngleProgressiveScore(metrics.torsoAngle,
                                    thresholds.torso, weights.torso)]
        score == NumAdd(NumAdd(RatInt(0), breakdown.neck), breakdown.torso)
        scoreThreshold == IF isSCIMode THEN Rat(75, 100) ELSE Rat(85, 100)
    IN  [score |-> score, isGood |-> NumGe(score, scoreThreshold), breakdown |-> breakdown,
         percentage |-> NumPercent(score), weights |-> weights]

\* metric values and thresholds the scoring functions are called with
TiltValues == {0, 20, 24, 25, 30, 45, 90}
SpinalValues == {0, 15, 20, 50}
SPINAL_THRESHOLD == 20
NeckScoreValues == {0, 29, 30, 39, 40, 45, 60, 100}
TorsoScoreValues == {0, 10, 11, 14, 15, 20, 40}

FrontMetrics ==
    {[shoulderTilt |-> a, hipTilt |-> b, headTilt |-> c, hasSpinal |-> hs,
      spinalCurvature |-> IF hs THEN sp ELSE 0] :
        a \in TiltValues, b \in TiltValues, c \in TiltValues, hs \in BOOLEAN,
        sp \in SpinalValues}

\* the profiles' front limits, with the spinal limit analyzeFrontPosture passes or none
FrontThresholds ==
    {[shoulder |-> SCI_THRESHOLDS[m].shoulder, hip |-> SCI_THRESHOLDS[m].hip,
      head |-> SCI_THRESHOLDS[m].head, spinal |-> sp] :
        m \in ModeNames, sp \in {0, SPINAL_THRESHOLD}}

SideMetrics == {[neckAngle |-> a, torsoAngle |-> b] : a \in NeckScoreValues, b \in TorsoScoreValues}

SideThresholds == {[neck |-> p[1], torso |-> p[2]] : p \in ThresholdPairs}

NoScore ==
    [score |-> RatInt(0), isGood |-> FALSE, breakdown |-> <<>>, percentage |-> 0,
     weights |-> <<>>]

NoScoreCall ==
    [op |-> "idle", fn |-> "side", metrics |-> <<>>, thresholds |-> <<>>, isSCIMode |-> FALSE,
     ret |-> NoScore]

\* the calls about to be made
ScoreCalls ==
    {[op |-> "call", fn |-> "front", metrics |-> m, thresholds |-> t, isSCIMode |-> sci,
      ret |-> NoScore] : m \in FrontMetrics, t \in FrontThresholds, sci \in BOOLEAN}
        \cup {[op |-> "call", fn |-> "side", metrics |-> m, thresholds |-> t,
               isSCIMode |-> sci, ret |-> NoScore] :
                m \in SideMetrics, t \in SideThresholds, sci \in BOOLEAN}

\* calls with at least one threshold equal to 0
ZeroMetricValues == {0, 10}

ZeroFrontThresholds ==
    {t \in [shoulder : {0, SCI_THRESHOLDS["standard"].shoulder},
            hip : {0, SCI_THRESHOLDS["standard"].hip},
            head : {0, SCI_THRESHOLDS["standard"].head},
            spinal : {0, SPINAL_THRESHOLD}] : 0 \in {t.shoulder, t.hip, t.head, t.spinal}}

ZeroSideThresholds ==
    {t \in [neck : {0, DEFAULT_NECK_THRESHOLD}, torso : {0, DEFAULT_TORSO_THRESHOLD}] :
        0 \in {t.neck, t.torso}}

ZeroThresholdCalls ==
    {[op |-> "call", fn |-> "front",
      metrics |-> [shoulderTilt |-> a, hipTilt |-> b, headTilt |-> c, hasSpinal |-> TRUE,
                   spinalCurvature |-> sp],
      thresholds |-> t, isSCIMode |-> sci, ret |-> NoScore] :
        a \in ZeroMetricValues, b \in ZeroMetricValues, c \in ZeroMetricValues,
        sp \in ZeroMetricValues, t \in ZeroFrontThresholds, sci \in BOOLEAN}
        \cup {[op |-> "call", fn |-> "side", metrics |-> [neckAngle |-> a, torsoAngle |-> b],
               thresholds |-> t, isSCIMode |-> sci, ret |-> NoScore] :
                a \in ZeroMetricValues, b \in ZeroMetricValues, t \in ZeroSideThresholds,
                sci \in BOOLEAN}

ScoreFront ==
    /\ sccall.op = "call" /\ sccall.fn = "front"
    /\ sccall' = [sccall EXCEPT !.op = "done",
                    !.ret = calculatePostureScoreFront(sccall.metrics, sccall.thresholds,
                                                       sccall.isSCIMode)]
    /\ UNCHANGED <<hyst, hcall, band, smoother, scall, slog, fcall, currentThresholdMode,
                   pcall, localStorage, mcall, manager, acall, spcall, gcall, fpcall, dcall, alert, clock, alog, postureHistory, historyState, today, hscall, milestones, rehab_milestones, mlcall>>

ScoreSide ==
    /\ sccall.op = "call" /\ sccall.fn = "side"
    /\ sccall' = [sccall EXCEPT !.op = "done",
                    !.ret = calculatePostureScoreSide(sccall.metrics, sccall.thresholds,
                                                      sccall.isSCIMode)]
    /\ UNCHANGED <<hyst, hcall, band, smoother, scall, slog, fcall, currentThresholdMode,
                   pcall, localStorage, mcall, manager, acall, spcall, gcall, fpcall, dcall, alert, clock, alog, postureHistory, historyState, today, hscall, milestones, rehab_milestones, mlcall>>

-----------------------------------------------------------------------------
(* The per-metric score functions called on their own *)

AngleScale == 100       \* values and thresholds are in units of 1/AngleScale

\* the weights calculatePostureScoreFront passes for the metrics it scores
FrontMetricWeights ==
    {frontWeights(sci, hs)[m] : sci \in BOOLEAN, hs \in BOOLEAN, m \in {"shoulder", "hip", "head"}}
        \cup {frontWeights(sci, TRUE)["spinal"] : sci \in BOOLEAN}

SideMetricWeights == {sideWeights(sci)[m] : sci \in BOOLEAN, m \in {"neck", "torso"}}

\* the limits the profiles hold and the spinal limit analyzeFrontPosture passes
FrontMetricThresholds ==
    {SCI_THRESHOLDS[m][f] : m \in ModeNames, f \in {"shoulder", "hip", "head"}}
        \cup {SPINAL_THRESHOLD}

SideMetricThresholds == {SCI_THRESHOLDS[m][f] : m \in ModeNames, f \in {"neck", "torso"}}

\* the values scored against a threshold: 0, half of it, 99% of it, the threshold itself,
\* one and a half times it, twice it
Points == {"zero", "half", "near", "at", "over", "double"}

PointValue(p, threshold) ==
    CASE p = "zero" -> 0
      [] p = "half" -> threshold \div 2
      [] p = "near" -> (99 * threshold) \div 100
      [] p = "at" -> threshold
      [] p = "over" -> (3 * threshold) \div 2
      [] p = "double" -> 2 * threshold

NoMetricCall == [fn |-> "none", threshold |-> 0, weight |-> RatInt(0), scores |-> <<>>]

MetricCalls ==
    {[fn |-> "front", threshold |-> t * AngleScale, weight |-> w, scores |-> <<>>] :
        t \in FrontMetricThresholds, w \in FrontMetricWeights}
        \cup {[fn |-> "side", threshold |-> t * AngleScale, weight |-> w, scores |-> <<>>] :
                t \in SideMetricThresholds, w \in SideMetricWeights}

ProgressiveScore(p) ==
    /\ pcall.fn = "front" /\ p \notin DOMAIN pcall.scores
    /\ pcall' = [pcall EXCEPT !.scores = @ @@ (p :>
                    calculateProgressiveScore(PointValue(p, pcall.threshold), pcall.threshold,
                                              pcall.weight))]
    /\ UNCHANGED <<hyst, hcall, band, smoother, scall, slog, fcall, currentThresholdMode, sccall,
                   localStorage, mcall, manager, acall, spcall, gcall, fpcall, dcall, alert, clock, alog, postureHistory, historyState, today, hscall, milestones, rehab_milestones, mlcall>>

AngleProgressiveScore(p) ==
    /\ pcall.fn = "side" /\ p \notin DOMAIN pcall.scores
    /\ pcall' = [pcall EXCEPT !.scores = @ @@ (p :>
                    calculateAngleProgressiveScore(PointValue(p, pcall.threshold),
                                                   pcall.threshold, pcall.weight))]
    /\ UNCHANGED <<hyst, hcall, band, smoother, scall, slog, fcall, currentThresholdMode, sccall,
                   localStorage, mcall, manager, acall, spcall, gcall, fpcall, dcall, alert, clock, alog, postureHistory, historyState, today, hscall, milestones, rehab_milestones, mlcall>>

-----------------------------------------------------------------------------
(* Active threshold mode and its persistence (constants.js) *)

\* localStorage.getItem returns null: nothing is stored under the key
Missing == "(missing)"

\* names that are no key of SCI_THRESHOLDS, own or inherited
UnknownNames == {"", "relaxed"}

StoredValues == ModeNames \cup InheritedNames \cup UnknownNames \cup {Missing}
RequestedNames == ModeNames \cup InheritedNames \cup UnknownNames

\* module evaluation: currentThresholdMode starts as 'standard', then the stored mode is
\* loaded; getThrows tells whether localStorage.getItem throws
loadThresholdMode(getThrows) ==
    IF getThrows THEN [currentThresholdMode |-> "standard", raised |-> FALSE]
    ELSE LET savedMode == localStorage
         IN  [currentThresholdMode |->
                IF savedMode # Missing /\ savedMode # "" /\ hasThresholds(savedMode)
                THEN savedMode ELSE "standard",
              raised |-> FALSE]

\* setThresholdMode that changes the mode without storing it
setThresholdModeUnsaved(mode, hasCallback, setThrows) ==
    IF hasThresholds(mode)
    THEN [currentThresholdMode |-> mode, localStorage |-> localStorage,
          called |-> IF hasCallback THEN <<mode>> ELSE <<>>, raised |-> FALSE]
    ELSE [currentThresholdMode |-> currentThresholdMode, localStorage |-> localStorage,
          called |-> <<>>, raised |-> FALSE]

\* setThresholdMode(mode, updateStateCallback); setThrows tells whether
\* localStorage.setItem throws; called lists the arguments the callback was invoked with
setThresholdMode(mode, hasCallback, setThrows) ==
    IF hasThresholds(mode)
    THEN [currentThresholdMode |-> mode,
          localStorage |-> IF setThrows THEN localStorage ELSE mode,
          called |-> IF hasCallback THEN <<mode>> ELSE <<>>, raised |-> FALSE]
    ELSE [currentThresholdMode |-> currentThresholdMode, localStorage |-> localStorage,
          called |-> <<>>, raised |-> FALSE]

NoModeCall ==
    [op |-> "none", mode |-> "", hasCallback |-> FALSE, throws |-> FALSE, called |-> <<>>,
     raised |-> FALSE, pre |-> [currentThresholdMode |-> "standard", localStorage |-> Missing,
                                op |-> "none", mode |-> "", throws |-> FALSE]]

\* what the next call remembers of the state before it
ModePre ==
    [currentThresholdMode |-> currentThresholdMode, localStorage |-> localStorage,
     op |-> mcall.op, mode |-> mcall.mode, throws |-> mcall.throws]

\* the page is loaded or reloaded: constants.js is evaluated
Startup(getThrows) ==
    LET r == loadThresholdMode(getThrows)
    IN  /\ currentThresholdMode' = r.currentThresholdMode
        /\ mcall' = [op |-> "load", mode |-> "", hasCallback |-> FALSE, throws |-> getThrows,
                     called |-> <<>>, raised |-> r.raised, pre |-> ModePre]
        /\ UNCHANGED <<hyst, hcall, band, smoother, scall, slog, fcall, sccall, pcall,
                       localStorage, manager, acall, spcall, gcall, fpcall, dcall, alert, clock, alog, postureHistory, historyState, today, hscall, milestones, rehab_milestones, mlcall>>

SetThresholdMode(mode, hasCallback, setThrows) ==
    LET r == setThresholdMode(mode, hasCallback, setThrows)
    IN  /\ mcall.op # "none"
        /\ currentThresholdMode' = r.currentThresholdMode
        /\ localStorage' = r.localStorage
        /\ mcall' = [op |-> "set", mode |-> mode, hasCallback |-> hasCallback,
                     throws |-> setThrows, called |-> r.called, raised |-> r.raised,
                     pre |-> ModePre]
        /\ UNCHANGED <<hyst, hcall, band, smoother, scall, slog, fcall, sccall, pcall,
                       manager, acall, spcall, gcall, fpcall, dcall, alert, clock, alog, postureHistory, historyState, today, hscall, milestones, rehab_milestones, mlcall>>

-----------------------------------------------------------------------------
(* AdaptiveThresholdManager (algorithms.js) *)

MaxHistory == 8         \* length of the histories passed to updateRehabLevel

RECENT_ENTRIES == 7     \* historyData.slice(-7)

Levels == {"early", "middle", "late"}

multipliers ==
    [l \in Levels |->
        CASE l = "early" -> [neck |-> Rat(15, 10), torso |-> Rat(20, 10)]
          [] l = "middle" -> [neck |-> Rat(12, 10), torso |-> Rat(15, 10)]
          [] l = "late" -> [neck |-> Rat(10, 10), torso |-> Rat(10, 10)]]

ManagerNew(baseNeckThreshold, baseTorsoThreshold) ==
    [baseNeckThreshold |-> baseNeckThreshold, baseTorsoThreshold |-> baseTorsoThreshold,
     rehabLevel |-> "early"]

\* reading a field of multipliers[rehabLevel] throws when the level is no key
getThresholds(m) ==
    IF m.rehabLevel \in DOMAIN multipliers
    THEN LET mult == multipliers[m.rehabLevel]
         IN  [raised |-> FALSE,
              neck |-> RatMul(RatInt(m.baseNeckThreshold), mult.neck),
              torso |-> RatMul(RatInt(m.baseTorsoThreshold), mult.torso)]
    ELSE [raised |-> TRUE, neck |-> RatInt(0), torso |-> RatInt(0)]

\* a history entry: a field that is absent (undefined) is 0 here, hasSummary tells
\* whether the entry has a summary object
Entry(hasSummary, goodPercentage, goodTime, badTime, goodFrames, badFrames) ==
    [hasSummary |-> hasSummary, goodPercentage |-> goodPercentage, goodTime |-> goodTime,
     badTime |-> badTime, goodFrames |-> goodFrames, badFrames |-> badFrames]

\* the value the reduce callback adds for entry d
goodPercent(d) ==
    IF d.hasSummary THEN RatInt(d.goodPercentage)
    ELSE IF Truthy(d.goodTime) /\ Truthy(d.badTime)
         THEN RatMul(Rat(d.goodTime, d.goodTime + d.badTime), RatInt(100))
         ELSE RatInt(0)

\* historyData.slice(-7)
sliceRecent(historyData) ==
    SubSeq(historyData, IF Len(historyData) > RECENT_ENTRIES
                        THEN Len(historyData) - RECENT_ENTRIES + 1 ELSE 1, Len(historyData))

\* historyData.slice(-7) taken as the whole array
sliceAll(historyData) == historyData

RECURSIVE sumGoodPercent(_)
\* recentData.reduce((sum, d) => sum + goodPercent, 0)
sumGoodPercent(recentData) ==
    IF recentData = <<>> THEN RatInt(0)
    ELSE RatAdd(sumGoodPercent(SubSeq(recentData, 1, Len(recentData) - 1)),
                goodPercent(recentData[Len(recentData)]))

\* history is [given, data]: given is FALSE for an undefined or null argument
updateRehabLevel(m, history) ==
    IF ~history.given \/ Len(history.data) = 0
    THEN [m EXCEPT !.rehabLevel = "early"]
    ELSE LET recentData == sliceRecent(history.data)
             avgGoodPercentage == RatDiv(sumGoodPercent(recentData), RatInt(Len(recentData)))
         IN  [m EXCEPT !.rehabLevel =
                IF RatLt(avgGoodPercentage, RatInt(30)) THEN "early"
                ELSE IF RatLt(avgGoodPercentage, RatInt(70)) THEN "middle"
                ELSE "late"]

\* history: the value the reduce callback added for each entry it visited
countedPercents(history) ==
    IF ~history.given \/ Len(history.data) = 0 THEN <<>>
    ELSE LET recentData == sliceRecent(history.data)
         IN  [i \in 1 .. Len(recentData) |-> goodPercent(recentData[i])]

\* setRehabLevel that takes any level
setRehabLevelUnchecked(m, level) == [m EXCEPT !.rehabLevel = level]

setRehabLevel(m, level) ==
    IF level \in {"early", "middle", "late"} THEN [m EXCEPT !.rehabLevel = level] ELSE m

\* history entries: with a summary, with time counts only, with frame counts only
Entries ==
    {Entry(TRUE, p, 0, 0, 0, 0) : p \in {0, 30, 70, 80}}
        \cup {Entry(FALSE, 0, g[1], g[2], 0, 0) : g \in {<<30, 0>>, <<30, 10>>, <<0, 30>>}}
        \cup {Entry(FALSE, 0, 0, 0, 3, 1)}

\* the entries put in front of an array as its oldest entry
OlderEntries ==
    {Entry(TRUE, 80, 0, 0, 0, 0), Entry(TRUE, 0, 0, 0, 0, 0), Entry(FALSE, 0, 30, 0, 0, 0)}

\* the array of length n whose first k entries are a and whose other entries are b
Mix(a, b, k, n) == [i \in 1 .. n |-> IF i <= k THEN a ELSE b]

NoHistory == [given |-> FALSE, data |-> <<>>]

Histories ==
    {[given |-> TRUE, data |-> Mix(a, b, k, n)] :
        a \in OlderEntries, b \in Entries, k \in 0 .. 1, n \in 0 .. MaxHistory}
        \cup {NoHistory}

LevelArguments == Levels \cup {"", "advanced"}

\* the base limits a manager is constructed with: the constructor's defaults, the
\* default limits of constants.js
ManagerBases ==
    {<<DEFAULT_NECK_THRESHOLD, 10>>, <<DEFAULT_NECK_THRESHOLD, DEFAULT_TORSO_THRESHOLD>>}

NoThresholds == [raised |-> FALSE, neck |-> RatInt(0), torso |-> RatInt(0)]

NoManagerCall ==
    [op |-> "none", level |-> "", history |-> NoHistory, ret |-> NoThresholds,
     percents |-> <<>>, pre |-> ManagerNew(0, 0)]

GetThresholds ==
    /\ acall' = [op |-> "getThresholds", level |-> "", history |-> NoHistory,
                 ret |-> getThresholds(manager), percents |-> <<>>, pre |-> manager]
    /\ UNCHANGED <<hyst, hcall, band, smoother, scall, slog, fcall, currentThresholdMode, sccall,
                   pcall, localStorage, mcall, manager, spcall, gcall, fpcall, dcall, alert, clock, alog, postureHistory, historyState, today, hscall, milestones, rehab_milestones, mlcall>>

UpdateRehabLevel(history) ==
    /\ manager' = updateRehabLevel(manager, history)
    /\ acall' = [op |-> "updateRehabLevel", level |-> "", history |-> history,
                 ret |-> NoThresholds, percents |-> countedPercents(history),
                 pre |-> manager]
    /\ UNCHANGED <<hyst, hcall, band, smoother, scall, slog, fcall, currentThresholdMode, sccall,
                   pcall, localStorage, mcall, spcall, gcall, fpcall, dcall, alert, clock, alog, postureHistory, historyState, today, hscall, milestones, rehab_milestones, mlcall>>

SetRehabLevel(level) ==
    /\ manager' = setRehabLevel(manager, level)
    /\ acall' = [op |-> "setRehabLevel", level |-> level, history |-> NoHistory,
                 ret |-> NoThresholds, percents |-> <<>>, pre |-> manager]
    /\ UNCHANGED <<hyst, hcall, band, smoother, scall, slog, fcall, currentThresholdMode, sccall,
                   pcall, localStorage, mcall, spcall, gcall, fpcall, dcall, alert, clock, alog, postureHistory, historyState, today, hscall, milestones, rehab_milestones, mlcall>>

-----------------------------------------------------------------------------
(* RehabilitationDashboard.getCurrentRehabStage (rehabilitation dashboard) *)

\* the value the dashboard's reduce callback adds for a record:
\* summary?.goodPercentage || (times || frames || 0)
stageGoodPercent(record) ==
    IF record.hasSummary /\ Truthy(record.goodPercentage) THEN RatInt(record.goodPercentage)
    ELSE IF Truthy(record.goodTime) /\ Truthy(record.badTime)
         THEN RatMul(Rat(record.goodTime, record.goodTime + record.badTime), RatInt(100))
         ELSE IF Truthy(record.goodFrames) /\ Truthy(record.badFrames)
              THEN RatMul(Rat(record.goodFrames, record.goodFrames + record.badFrames),
                          RatInt(100))
              ELSE RatInt(0)

RECURSIVE sumStageGoodPercent(_)
sumStageGoodPercent(recentData) ==
    IF recentData = <<>> THEN RatInt(0)
    ELSE RatAdd(sumStageGoodPercent(SubSeq(recentData, 1, Len(recentData) - 1)),
                stageGoodPercent(recentData[Len(recentData)]))

getCurrentRehabStage(history) ==
    IF ~history.given \/ Len(history.data) < RECENT_ENTRIES THEN "early"
    ELSE LET recentData == sliceRecent(history.data)
             avgGoodPercentage ==
                RatDiv(sumStageGoodPercent(recentData), RatInt(Len(recentData)))
         IN  IF RatLt(avgGoodPercentage, RatInt(40)) THEN "early"
             ELSE IF RatLt(avgGoodPercentage, RatInt(70)) THEN "middle"
             ELSE "late"

NoStageCall == [op |-> "idle", history |-> NoHistory, ret |-> "early"]

GetCurrentRehabStage ==
    /\ dcall.op = "call"
    /\ dcall' = [dcall EXCEPT !.op = "done", !.ret = getCurrentRehabStage(dcall.history)]
    /\ UNCHANGED <<hyst, hcall, band, smoother, scall, slog, fcall, currentThresholdMode,
                   sccall, pcall, localStorage, mcall, manager, acall, spcall, gcall, fpcall, alert, clock, alog, postureHistory, historyState, today, hscall, milestones, rehab_milestones, mlcall>>

-----------------------------------------------------------------------------
(* analyzeSidePosture (posture analysis functions) *)

\* an angle that is a whole or a half number of degrees, in half degrees
HalfDegrees(angle) == (2 * angle.n) \div angle.d

\* the result when the left shoulder, ear or hip is not valid
Unavailable ==
    [neckAngle |-> RatInt(0), torsoAngle |-> RatInt(0), isGoodPosture |-> FALSE,
     issues |-> <<"Landmarks unavailable">>]

\* analyzeSidePosture that skips the basic check on the three left landmarks
analyzeSidePostureUngated(frame) ==
    LET fusedNeck == calculateAngleWithFusion(frame, "neck")
        fusedTorso == calculateAngleWithFusion(frame, "torso")
        thresholds == getCurrentThresholds
        isSCIMode == currentThresholdMode # "standard"
    IN  IF "neck" \in DOMAIN thresholds
        THEN LET scoreResult ==
                    calculatePostureScoreSide(
                        [neckAngle |-> HalfDegrees(fusedNeck),
                         torsoAngle |-> HalfDegrees(fusedTorso)],
                        [neck |-> 2 * thresholds.neck, torso |-> 2 * thresholds.torso],
                        isSCIMode)
             IN  [neckAngle |-> fusedNeck, torsoAngle |-> fusedTorso,
                  isGoodPosture |-> scoreResult.isGood,
                  issues |->
                    (IF RatLe(RatInt(thresholds.neck), fusedNeck)
                     THEN <<"Neck forward tilt">> ELSE <<>>)
                    \o (IF RatLe(RatInt(thresholds.torso), fusedTorso)
                        THEN <<"Torso forward lean">> ELSE <<>>),
                  score |-> scoreResult.score, scorePercentage |-> scoreResult.percentage]
        ELSE [neckAngle |-> fusedNeck, torsoAngle |-> fusedTorso, isGoodPosture |-> FALSE,
              issues |-> <<>>, score |-> NaN, scorePercentage |-> NaN]

\* analyzeSidePosture taking the population mode from the profile that was active
\* before the last mode operation
analyzeSidePostureStaleMode(frame) ==
    IF \/ ~isLandmarkValid(frame.visibility["lShoulder"])
       \/ ~isLandmarkValid(frame.visibility["lEar"])
       \/ ~isLandmarkValid(frame.visibility["lHip"])
    THEN Unavailable
    ELSE
    LET fusedNeck == calculateAngleWithFusion(frame, "neck")
        fusedTorso == calculateAngleWithFusion(frame, "torso")
        neckAngle == IF fusedNeck = RatInt(0) THEN RatInt(frame.angle["lShoulderEar"])
                     ELSE fusedNeck
        torsoAngle == IF fusedTorso = RatInt(0)
                      THEN (IF frame.hipBelow["lHipShoulder"]
                            THEN RatInt(frame.angle["lHipShoulder"]) ELSE RatInt(0))
                      ELSE fusedTorso
        thresholds == getCurrentThresholds
        isSCIMode == mcall.pre.currentThresholdMode # "standard"
    IN  IF "neck" \in DOMAIN thresholds
        THEN LET scoreResult ==
                    calculatePostureScoreSide(
                        [neckAngle |-> HalfDegrees(neckAngle),
                         torsoAngle |-> HalfDegrees(torsoAngle)],
                        [neck |-> 2 * thresholds.neck, torso |-> 2 * thresholds.torso],
                        isSCIMode)
             IN  [neckAngle |-> neckAngle, torsoAngle |-> torsoAngle,
                  isGoodPosture |-> scoreResult.isGood,
                  issues |->
                    (IF RatLe(RatInt(thresholds.neck), neckAngle)
                     THEN <<"Neck forward tilt">> ELSE <<>>)
                    \o (IF RatLe(RatInt(thresholds.torso), torsoAngle)
                        THEN <<"Torso forward lean">> ELSE <<>>),
                  score |-> scoreResult.score, scorePercentage |-> scoreResult.percentage]
        ELSE [neckAngle |-> neckAngle, torsoAngle |-> torsoAngle, isGoodPosture |-> FALSE,
              issues |-> <<>>, score |-> NaN, scorePercentage |-> NaN]

\* the angles are scored in half degrees against the doubled limits (the score depends
\* on the ratio only); with an inherited name active the limits are undefined, every
\* comparison with them is false and the score is NaN
analyzeSidePosture(frame) ==
    IF \/ ~isLandmarkValid(frame.visibility["lShoulder"])
       \/ ~isLandmarkValid(frame.visibility["lEar"])
       \/ ~isLandmarkValid(frame.visibility["lHip"])
    THEN Unavailable
    ELSE
    LET fusedNeck == calculateAngleWithFusion(frame, "neck")
        fusedTorso == calculateAngleWithFusion(frame, "torso")
        neckAngle == IF fusedNeck = RatInt(0) THEN RatInt(frame.angle["lShoulderEar"])
                     ELSE fusedNeck
        torsoAngle == IF fusedTorso = RatInt(0)
                      THEN (IF frame.hipBelow["lHipShoulder"]
                            THEN RatInt(frame.angle["lHipShoulder"]) ELSE RatInt(0))
                      ELSE fusedTorso
        thresholds == getCurrentThresholds
        isSCIMode == currentThresholdMode # "standard"
    IN  IF "neck" \in DOMAIN thresholds
        THEN LET scoreResult ==
                    calculatePostureScoreSide(
                        [neckAngle |-> HalfDegrees(neckAngle),
                         torsoAngle |-> HalfDegrees(torsoAngle)],
                        [neck |-> 2 * thresholds.neck, torso |-> 2 * thresholds.torso],
                        isSCIMode)
             IN  [neckAngle |-> neckAngle, torsoAngle |-> torsoAngle,
                  isGoodPosture |-> scoreResult.isGood,
                  issues |->
                    (IF RatLe(RatInt(thresholds.neck), neckAngle)
                     THEN <<"Neck forward tilt">> ELSE <<>>)
                    \o (IF RatLe(RatInt(thresholds.torso), torsoAngle)
                        THEN <<"Torso forward lean">> ELSE <<>>),
                  score |-> scoreResult.score, scorePercentage |-> scoreResult.percentage]
        ELSE [neckAngle |-> neckAngle, torsoAngle |-> torsoAngle, isGoodPosture |-> FALSE,
              issues |-> <<>>, score |-> NaN, scorePercentage |-> NaN]

SideNeckAngles == {0, 20, 50}       \* angles calculateAnglePrecise returns for a neck pair
SideTorsoAngles == {0, 30}          \* and for a torso pair

\* the methods all of whose landmarks are valid under the visibilities v
ValidMethods(v) == {m \in AllMethods : \A l \in MethodLandmarks(m) : isLandmarkValid(v[l])}

\* the frames analyzeSidePosture is called with; the angle and the hip position of a
\* pair with an invalid landmark are never read and are left 0 / FALSE
SideFrames ==
    UNION {
        LET ms == ValidMethods(v)
            ts == ms \cap {"lHipShoulder", "rHipShoulder"}
        IN  {[visibility |-> v,
              hipBelow |-> [m \in AllMethods |-> IF m \in ts THEN b[m] ELSE FALSE],
              angle |-> [m \in AllMethods |->
                            IF m \in ts THEN at[m]
                            ELSE IF m \in ms THEN an[m] ELSE 0]] :
                b \in [ts -> BOOLEAN], at \in [ts -> SideTorsoAngles],
                an \in [ms \ ts -> SideNeckAngles]} :
        v \in [LandmarkNames -> Visibilities]}

\* frames with every landmark visible and all methods of a kind agreeing on the angle
SwapFrames ==
    {[visibility |-> [l \in LandmarkNames |-> MIN_LANDMARK_VISIBILITY + 1],
      hipBelow |-> [m \in AllMethods |-> m \in {"lHipShoulder", "rHipShoulder"}],
      angle |-> [m \in AllMethods |->
                    IF m \in {"lHipShoulder", "rHipShoulder"} THEN t ELSE n]] :
        n \in SideNeckAngles \ {0}, t \in SideTorsoAngles}

NoSideCall == [op |-> "idle", frame |-> NoFrame, ret |-> Unavailable]

AnalyzeSidePosture ==
    /\ spcall.op = "call"
    /\ spcall' = [spcall EXCEPT !.op = "done", !.ret = analyzeSidePosture(spcall.frame)]
    /\ UNCHANGED <<hyst, hcall, band, smoother, scall, slog, fcall, currentThresholdMode, sccall,
                   pcall, localStorage, mcall, manager, acall, gcall, fpcall, dcall, alert, clock, alog, postureHistory, historyState, today, hscall, milestones, rehab_milestones, mlcall>>

-----------------------------------------------------------------------------
(* analyzeFrontPosture (posture analysis functions) *)
(* A front frame carries the visibility of the six landmarks read and their  *)
(* height y * canvasHeight in whole pixels.  The metrics are scored doubled  *)
(* against the doubled limits (the score depends on the ratio only), so that *)
(* the midpoints of the spinal curvature stay whole.                         *)

FRONT_SHOULDER_THRESHOLD_DEFAULT == 30
FRONT_HEAD_THRESHOLD_DEFAULT == 25
FRONT_HIP_THRESHOLD == 25

FrontLandmarks == {"lShoulder", "rShoulder", "lHip", "rHip", "lEar", "rEar"}

\* an argument of a call: <<>> when it is not passed, <<v>> when v is passed
ArgOr(arg, default) == IF arg = <<>> THEN default ELSE arg[1]

\* a || b of two limits
Or(a, b) == IF Truthy(a) THEN a ELSE b

FrontUnavailable ==
    [shoulderTilt |-> 0, hipTilt |-> 0, headTilt |-> 0, isGoodPosture |-> FALSE,
     issues |-> <<"Landmarks unavailable">>]

\* the object analyzeFrontPosture returns: what it measured, with the score result's fields
frontResult(measured, scoreResult) ==
    [shoulderTilt |-> measured.shoulderTilt, hipTilt |-> measured.hipTilt,
     headTilt |-> measured.headTilt, spinalCurvature2 |-> measured.spinalCurvature2,
     isGoodPosture |-> scoreResult.isGood, issues |-> measured.issues,
     score |-> scoreResult.score, scoreBreakdown |-> scoreResult.breakdown,
     scorePercentage |-> scoreResult.percentage, limits |-> measured.limits]

\* analyzeFrontPosture(landmarks, canvasHeight, shoulderThreshold, headThreshold) while a
\* defined profile is active; limits is a ghost field: the limits the score was taken
\* against
analyzeFrontPosture(frame, shoulderArg, headArg) ==
    LET shoulderThreshold == ArgOr(shoulderArg, FRONT_SHOULDER_THRESHOLD_DEFAULT)
        headThreshold == ArgOr(headArg, FRONT_HEAD_THRESHOLD_DEFAULT)
        valid(l) == isLandmarkValid(frame.visibility[l])
        y == frame.y
    IN  IF ~valid("lShoulder") \/ ~valid("rShoulder") THEN FrontUnavailable
        ELSE
        LET shoulderTilt == Abs(y["lShoulder"] - y["rShoulder"])
            hipTilt == IF valid("lHip") /\ valid("rHip") THEN Abs(y["lHip"] - y["rHip"])
                       ELSE 0
            headTilt == IF valid("lEar") /\ valid("rEar") THEN Abs(y["lEar"] - y["rEar"])
                        ELSE 0
            \* twice |shoulderMidY - hipMidY|
            spinalCurvature2 ==
                IF valid("lHip") /\ valid("rHip")
                THEN Abs((y["lShoulder"] + y["rShoulder"]) - (y["lHip"] + y["rHip"]))
                ELSE 0
            thresholds == getCurrentThresholds
            isSCIMode == currentThresholdMode # "standard"
            limits == [shoulder |-> Or(shoulderThreshold, thresholds.shoulder),
                       hip |-> Or(FRONT_HIP_THRESHOLD, thresholds.hip),
                       head |-> Or(headThreshold, thresholds.head),
                       spinal |-> SPINAL_THRESHOLD]
            scoreResult ==
                calculatePostureScoreFront(
                    [shoulderTilt |-> 2 * shoulderTilt, hipTilt |-> 2 * hipTilt,
                     headTilt |-> 2 * headTilt, hasSpinal |-> TRUE,
                     spinalCurvature |-> spinalCurvature2],
                    [m \in DOMAIN limits |-> 2 * limits[m]], isSCIMode)
        IN  frontResult(
            [shoulderTilt |-> shoulderTilt, hipTilt |-> hipTilt, headTilt |-> headTilt,
             spinalCurvature2 |-> spinalCurvature2,
             issues |->
                (IF shoulderTilt > Or(shoulderThreshold, thresholds.shoulder)
                 THEN <<IF y["lShoulder"] < y["rShoulder"] THEN "Left shoulder higher"
                        ELSE "Right shoulder higher">>
                 ELSE <<>>)
                \o (IF headTilt > Or(headThreshold, thresholds.head)
                    THEN <<"Head tilted">> ELSE <<>>)
                \o (IF hipTilt > Or(FRONT_HIP_THRESHOLD, thresholds.hip)
                    THEN <<"Hip tilted">> ELSE <<>>)
                \o (IF spinalCurvature2 > 2 * SPINAL_THRESHOLD
                    THEN <<IF y["lShoulder"] + y["rShoulder"] > y["lHip"] + y["rHip"]
                           THEN "Spine forward lean" ELSE "Spine backward lean">>
                    ELSE <<>>),
             limits |-> limits],
            scoreResult)

\* heights of the landmarks: level, or tilted by an amount between the profiles' limits
FrontHeights ==
    [lShoulder : {100, 132}, rShoulder : {100, 138}, lHip : {120}, rHip : {120, 148},
     lEar : {80}, rEar : {80, 112}]

FrontFrames ==
    {[visibility |-> v, y |-> h] : v \in [FrontLandmarks -> Visibilities], h \in FrontHeights}

\* front frames with every landmark visible: level, or with the shoulders, the hips
\* and the ears tilted
SwapFrontFrames ==
    {[visibility |-> [l \in FrontLandmarks |-> MIN_LANDMARK_VISIBILITY + 1], y |-> h] :
        h \in {g \in FrontHeights :
                    (g["lShoulder"] = g["rShoulder"]) = (g["lHip"] = g["rHip"])
                    /\ (g["lHip"] = g["rHip"]) = (g["lEar"] = g["rEar"])}}

\* the threshold arguments a caller passes: none, or a shoulder limit of its own
FrontArgs == {<<>>, <<50>>}

NoFrontFrame == [visibility |-> [l \in FrontLandmarks |-> 0], y |-> [l \in FrontLandmarks |-> 0]]

NoFrontCall ==
    [op |-> "idle", frame |-> NoFrontFrame, shoulderArg |-> <<>>, headArg |-> <<>>,
     ret |-> FrontUnavailable]

AnalyzeFrontPosture(frame, shoulderArg, headArg) ==
    /\ currentThresholdMode \in ModeNames
    /\ fpcall' = [op |-> "done", frame |-> frame, shoulderArg |-> shoulderArg,
                  headArg |-> headArg,
                  ret |-> analyzeFrontPosture(frame, shoulderArg, headArg)]
    /\ UNCHANGED <<hyst, hcall, band, smoother, scall, slog, fcall, currentThresholdMode,
                   sccall, pcall, localStorage, mcall, manager, acall, spcall, gcall, dcall, alert, clock, alog, postureHistory, historyState, today, hscall, milestones, rehab_milestones, mlcall>>

-----------------------------------------------------------------------------
(* Alert system (alert-system.js) *)
(* The bad-posture timer is kept in frames: every bad frame adds 1000/30 ms, *)
(* so its whole seconds are frames \div 30.  The displayed timer            *)
(* (setBadPostureTimer, lastDisplayUpdateRef) is presentation only and is    *)
(* left out.  Every Date.now() of a handler is a reading of its own: the     *)
(* clock may have moved on between two readings.                             *)

ALERT_COOLDOWN == 10000
FRAMES_PER_SECOND == 30

AlertLevels == {"mild", "moderate", "severe"}

AlertNew(alertInterval) ==
    [badFrames |-> 0, lastAlertTime |-> 0, shouldAlert |-> FALSE,
     alertInterval |-> alertInterval]

\* triggerProgressiveAlert(level) and triggerAlert() at clock reading now: the new
\* lastAlertTimeRef and whether the alert was delivered
triggerProgressiveAlert(a, level, now) ==
    IF now - a.lastAlertTime < ALERT_COOLDOWN
    THEN [lastAlertTime |-> a.lastAlertTime, delivered |-> FALSE]
    ELSE [lastAlertTime |-> now, delivered |-> TRUE]

triggerAlert(a, now) ==
    IF now - a.lastAlertTime < ALERT_COOLDOWN
    THEN [lastAlertTime |-> a.lastAlertTime, delivered |-> FALSE]
    ELSE [lastAlertTime |-> now, delivered |-> TRUE]

\* checkPostureAlert keeping the time triggerProgressiveAlert recorded
checkPostureAlertKeepingTriggerTime(a, isGoodPosture, shouldAlert, now, now2) ==
    IF isGoodPosture
    THEN [alert |-> [a EXCEPT !.badFrames = 0, !.shouldAlert = FALSE], level |-> "none",
          delivered |-> FALSE]
    ELSE LET b == [a EXCEPT !.badFrames = @ + 1]
             seconds == b.badFrames \div FRAMES_PER_SECOND
             cooled == now - a.lastAlertTime > ALERT_COOLDOWN
             level == IF seconds >= 2 /\ seconds < 5 /\ cooled THEN "mild"
                      ELSE IF seconds >= 5 /\ seconds < 15 /\ cooled THEN "moderate"
                      ELSE IF seconds >= a.alertInterval /\ cooled /\ ~shouldAlert
                           THEN "severe"
                           ELSE "none"
             r == triggerProgressiveAlert(b, level, now2)
         IN  IF level = "none" THEN [alert |-> b, level |-> "none", delivered |-> FALSE]
             ELSE [alert |-> [b EXCEPT !.lastAlertTime = r.lastAlertTime,
                                       !.shouldAlert = IF level = "severe" THEN TRUE ELSE @],
                   level |-> level, delivered |-> r.delivered]

\* checkPostureAlert(isGoodPosture, shouldAlert): now is its own clock reading, now2 the
\* reading of the triggerProgressiveAlert it calls
checkPostureAlert(a, isGoodPosture, shouldAlert, now, now2) ==
    IF isGoodPosture
    THEN [alert |-> [a EXCEPT !.badFrames = 0, !.shouldAlert = FALSE], level |-> "none",
          delivered |-> FALSE]
    ELSE LET b == [a EXCEPT !.badFrames = @ + 1]
             seconds == b.badFrames \div FRAMES_PER_SECOND
             cooled == now - a.lastAlertTime > ALERT_COOLDOWN
             level == IF seconds >= 2 /\ seconds < 5 /\ cooled THEN "mild"
                      ELSE IF seconds >= 5 /\ seconds < 15 /\ cooled THEN "moderate"
                      ELSE IF seconds >= a.alertInterval /\ cooled /\ ~shouldAlert
                           THEN "severe"
                           ELSE "none"
             r == triggerProgressiveAlert(b, level, now2)
         IN  IF level = "none" THEN [alert |-> b, level |-> "none", delivered |-> FALSE]
             \* lastAlertTimeRef.current = now, after the call
             ELSE [alert |-> [b EXCEPT !.lastAlertTime = now,
                                       !.shouldAlert = IF level = "severe" THEN TRUE ELSE @],
                   level |-> level, delivered |-> r.delivered]

MaxBadFrames == 485     \* bad frames counted by the timer
INITIAL_CLOCK == 20000  \* Date.now() when the alert system is created: a reading that
                        \* is more than the cooldown after lastAlertTimeRef's initial 0
MaxClock == 30001       \* last clock reading at which a handler starts
MaxSkew == 1            \* milliseconds the clock moves on inside handlers, per period

\* time that passes before a handler runs: none, the cooldown, a millisecond less
Delays == {0, ALERT_COOLDOWN - 1, ALERT_COOLDOWN}

\* the alerts delivered, the last two of them: time, level, caller and, for an alert of
\* checkPostureAlert, the whole seconds of the bad-posture timer
Logged(log, entry) == IF Len(log) < 2 THEN Append(log, entry) ELSE <<log[2], entry>>

\* the caller passes the shouldAlert it holds
CheckPostureAlert(isGoodPosture, delay, skew) ==
    LET now == clock + delay
        now2 == now + skew
        r == checkPostureAlert(alert, isGoodPosture, alert.shouldAlert, now, now2)
    IN  /\ now <= MaxClock
        /\ skew > 0 => now % ALERT_COOLDOWN < MaxSkew
        /\ isGoodPosture \/ alert.badFrames < MaxBadFrames
        /\ alert' = r.alert
        /\ clock' = now2
        /\ alog' = IF r.delivered
                   THEN Logged(alog, [time |-> now2, level |-> r.level,
                                      seconds |-> r.alert.badFrames \div FRAMES_PER_SECOND,
                                      by |-> "check"])
                   ELSE alog
        /\ UNCHANGED <<hyst, hcall, band, smoother, scall, slog, fcall, currentThresholdMode,
                       sccall, pcall, localStorage, mcall, manager, acall, spcall, gcall,
                       fpcall, dcall, postureHistory, historyState, today, hscall, milestones, rehab_milestones, mlcall>>

TriggerProgressiveAlert(level, delay) ==
    LET now == clock + delay
        r == triggerProgressiveAlert(alert, level, now)
    IN  /\ now <= MaxClock
        /\ alert' = [alert EXCEPT !.lastAlertTime = r.lastAlertTime]
        /\ clock' = now
        /\ alog' = IF r.delivered
                   THEN Logged(alog, [time |-> now, level |-> level, seconds |-> 0,
                                      by |-> "progressive"])
                   ELSE alog
        /\ UNCHANGED <<hyst, hcall, band, smoother, scall, slog, fcall, currentThresholdMode,
                       sccall, pcall, localStorage, mcall, manager, acall, spcall, gcall,
                       fpcall, dcall, postureHistory, historyState, today, hscall, milestones, rehab_milestones, mlcall>>

TriggerAlert(delay) ==
    LET now == clock + delay
        r == triggerAlert(alert, now)
    IN  /\ now <= MaxClock
        /\ alert' = [alert EXCEPT !.lastAlertTime = r.lastAlertTime]
        /\ clock' = now
        /\ alog' = IF r.delivered
                   THEN Logged(alog, [time |-> now, level |-> "alert", seconds |-> 0,
                                      by |-> "alert"])
                   ELSE alog
        /\ UNCHANGED <<hyst, hcall, band, smoother, scall, slog, fcall, currentThresholdMode,
                       sccall, pcall, localStorage, mcall, manager, acall, spcall, gcall,
                       fpcall, dcall, postureHistory, historyState, today, hscall, milestones, rehab_milestones, mlcall>>

-----------------------------------------------------------------------------
(* History persistence: loadHistory, saveHistory, deleteRecord (data handling functions) *)
(* A record carries its id and its startTime as a date in whole days.  A stored  *)
(* value is a text: JSON.stringify writes one entry <<id, startTime>> per record *)
(* and JSON.parse reads the entries back, or throws on a text that is not well   *)
(* formed.                                                                       *)

\* localStorage.getItem returns null: nothing is stored under the key
NoItem == [present |-> FALSE, wellFormed |-> FALSE, text |-> <<>>]

\* a stored text that JSON.parse rejects
BrokenItem == [present |-> TRUE, wellFormed |-> FALSE, text |-> <<>>]

JSONstringify(list) ==
    [present |-> TRUE, wellFormed |-> TRUE,
     text |-> [i \in 1..Len(list) |-> <<list[i].id, list[i].startTime>>]]

JSONparse(item) ==
    [threw |-> ~item.wellFormed,
     value |-> [i \in 1..Len(item.text) |->
                  [id |-> item.text[i][1], startTime |-> item.text[i][2]]]]

\* (new Date() - new Date(record.startTime)) / (1000 * 60 * 60 * 24)
daysDiff(record, now) == now - record.startTime

\* loadHistory(); getThrows tells whether localStorage.getItem throws
loadHistory(item, getThrows) ==
    IF getThrows THEN [value |-> <<>>, raised |-> FALSE]
    ELSE IF item.present
         THEN LET parsed == JSONparse(item)
              IN  IF parsed.threw THEN [value |-> <<>>, raised |-> FALSE]
                  ELSE [value |-> parsed.value, raised |-> FALSE]
         ELSE [value |-> <<>>, raised |-> FALSE]

\* saveHistory that hands the list to setHistory before it writes it
saveHistoryStateFirst(newRecord, history, item, now, first, second) ==
    LET updatedHistory == <<newRecord>> \o history
        filtered == SelectSeq(updatedHistory, LAMBDA record : daysDiff(record, now) <= 30)
        emergencyFiltered == SelectSeq(filtered, LAMBDA record : daysDiff(record, now) <= 7)
    IN  IF first = "ok"
        THEN [postureHistory |-> JSONstringify(filtered), handed |-> <<filtered>>,
              raised |-> FALSE]
        ELSE IF first = "QuotaExceededError"
             THEN IF second = "ok"
                  THEN [postureHistory |-> JSONstringify(emergencyFiltered),
                        handed |-> <<emergencyFiltered>>, raised |-> FALSE]
                  ELSE [postureHistory |-> item, handed |-> <<emergencyFiltered>>,
                        raised |-> FALSE]
             ELSE [postureHistory |-> item, handed |-> <<filtered>>, raised |-> FALSE]

\* saveHistory(newRecord, history, setHistory, ...) at the date now; first and second
\* tell how the first and the second localStorage.setItem end; handed lists the
\* arguments setHistory was called with
saveHistory(newRecord, history, item, now, first, second) ==
    LET updatedHistory == <<newRecord>> \o history
        filtered == SelectSeq(updatedHistory, LAMBDA record : daysDiff(record, now) <= 30)
        emergencyFiltered == SelectSeq(filtered, LAMBDA record : daysDiff(record, now) <= 7)
    IN  IF first = "ok"
        THEN [postureHistory |-> JSONstringify(filtered), handed |-> <<filtered>>,
              raised |-> FALSE]
        ELSE IF first = "QuotaExceededError"
             THEN IF second = "ok"
                  THEN [postureHistory |-> JSONstringify(emergencyFiltered),
                        handed |-> <<emergencyFiltered>>, raised |-> FALSE]
                  ELSE [postureHistory |-> item, handed |-> <<>>, raised |-> FALSE]
             ELSE [postureHistory |-> item, handed |-> <<>>, raised |-> FALSE]

\* deleteRecord(id, history, setHistory, language); confirmed is the answer to confirm(),
\* setThrows tells whether localStorage.setItem throws
deleteRecord(id, history, item, confirmed, setThrows) ==
    IF confirmed
    THEN LET updated == SelectSeq(history, LAMBDA r : r.id # id)
         IN  IF setThrows
             THEN [postureHistory |-> item, handed |-> <<>>, raised |-> TRUE]
             ELSE [postureHistory |-> JSONstringify(updated), handed |-> <<updated>>,
                   raised |-> FALSE]
    ELSE [postureHistory |-> item, handed |-> <<>>, raised |-> FALSE]

MaxRecords == 3     \* records in the list a saveHistory call is given, less one
MaxDay == 31        \* last date
DayGaps == {7, 24}   \* days between two calls
RecordIds == {1, 2}
SetItemOutcomes == {"ok", "QuotaExceededError", "SecurityError"}

\* what is stored when the page is first opened
InitialItems ==
    {NoItem, BrokenItem, JSONstringify(<<>>), JSONstringify(<<[id |-> 1, startTime |-> 0]>>)}

NoHistoryCall ==
    [op |-> "none", id |-> 0, now |-> 0, first |-> "ok", second |-> "ok", throws |-> FALSE,
     handed |-> <<>>, raised |-> FALSE,
     pre |-> [postureHistory |-> NoItem, historyState |-> <<>>]]

HistoryPre == [postureHistory |-> postureHistory, historyState |-> historyState]

\* the page is loaded or reloaded: the caller's history starts as loadHistory()
LoadHistory(getThrows) ==
    LET r == loadHistory(postureHistory, getThrows)
    IN  /\ historyState' = r.value
        /\ hscall' = [op |-> "loadHistory", id |-> 0, now |-> today, first |-> "ok",
                      second |-> "ok", throws |-> getThrows, handed |-> <<>>,
                      raised |-> r.raised, pre |-> HistoryPre]
        /\ UNCHANGED <<hyst, hcall, band, smoother, scall, slog, fcall, currentThresholdMode,
                       sccall, pcall, localStorage, mcall, manager, acall, spcall, gcall,
                       fpcall, dcall, alert, clock, alog, postureHistory, today, milestones, rehab_milestones, mlcall>>

\* a recording that started today ends
SaveHistory(id, first, second) ==
    LET newRecord == [id |-> id, startTime |-> today]
        r == saveHistory(newRecord, historyState, postureHistory, today, first, second)
    IN  /\ hscall.op # "none"
        /\ Len(historyState) < MaxRecords
        /\ postureHistory' = r.postureHistory
        /\ historyState' = IF r.handed = <<>> THEN historyState ELSE r.handed[1]
        /\ hscall' = [op |-> "saveHistory", id |-> id, now |-> today, first |-> first,
                      second |-> second, throws |-> FALSE, handed |-> r.handed,
                      raised |-> r.raised, pre |-> HistoryPre]
        /\ UNCHANGED <<hyst, hcall, band, smoother, scall, slog, fcall, currentThresholdMode,
                       sccall, pcall, localStorage, mcall, manager, acall, spcall, gcall,
                       fpcall, dcall, alert, clock, alog, today, milestones, rehab_milestones, mlcall>>

DeleteRecord(id, confirmed, setThrows) ==
    LET r == deleteRecord(id, historyState, postureHistory, confirmed, setThrows)
    IN  /\ hscall.op # "none"
        /\ postureHistory' = r.postureHistory
        /\ historyState' = IF r.handed = <<>> THEN historyState ELSE r.handed[1]
        /\ hscall' = [op |-> "deleteRecord", id |-> id, now |-> today, first |-> "ok",
                      second |-> "ok", throws |-> setThrows, handed |-> r.handed,
                      raised |-> r.raised, pre |-> HistoryPre]
        /\ UNCHANGED <<hyst, hcall, band, smoother, scall, slog, fcall, currentThresholdMode,
                       sccall, pcall, localStorage, mcall, manager, acall, spcall, gcall,
                       fpcall, dcall, alert, clock, alog, today, milestones, rehab_milestones, mlcall>>

\* days go by between two calls
PassDays(days) ==
    /\ hscall.op # "none"
    /\ today + days <= MaxDay
    /\ today' = today + days
    /\ UNCHANGED <<hyst, hcall, band, smoother, scall, slog, fcall, currentThresholdMode,
                   sccall, pcall, localStorage, mcall, manager, acall, spcall, gcall,
                   fpcall, dcall, alert, clock, alog, postureHistory, historyState, hscall, milestones, rehab_milestones, mlcall>>

-----------------------------------------------------------------------------
(* RehabilitationDashboard milestones (rehabilitation dashboard) *)
(* A record carries its startTime as a date in whole days, which is its date *)
(* key, and the fields its good percentage is read from.  A milestone's date *)
(* is <<>> for null and <<day>> once set.                                    *)

Milestone(days) == [days |-> days, achieved |-> FALSE, date |-> <<>>]

\* this.milestones as the constructor assigns it
MilestonesNew == [bronze |-> Milestone(3), silver |-> Milestone(7), gold |-> Milestone(30)]

MilestoneNames == {"bronze", "silver", "gold"}

\* JSON.stringify(this.milestones): one entry <<days, achieved, date>> per milestone
stringifyMilestones(m) ==
    [present |-> TRUE, wellFormed |-> TRUE,
     text |-> <<<<m.bronze.days, m.bronze.achieved, m.bronze.date>>,
                <<m.silver.days, m.silver.achieved, m.silver.date>>,
                <<m.gold.days, m.gold.achieved, m.gold.date>>>>]

parseMilestones(item) ==
    LET entry(i) == [days |-> item.text[i][1], achieved |-> item.text[i][2],
                     date |-> item.text[i][3]]
    IN  [threw |-> ~item.wellFormed,
         value |-> IF item.wellFormed
                   THEN [bronze |-> entry(1), silver |-> entry(2), gold |-> entry(3)]
                   ELSE MilestonesNew]

\* constructor: the default milestones, then loadMilestones()
loadMilestones(item) ==
    IF item.present
    THEN LET parsed == parseMilestones(item)
         IN  IF parsed.threw THEN MilestonesNew ELSE parsed.value
    ELSE MilestonesNew

\* new Date(record.startTime || record.date || Date.now()).toISOString().split('T')[0]
dateKey(record) == record.startTime

\* summary?.goodPercentage || (times || frames || 0)
milestoneGoodPercent(record) ==
    IF record.hasSummary /\ Truthy(record.goodPercentage) THEN RatInt(record.goodPercentage)
    ELSE IF Truthy(record.goodTime) /\ Truthy(record.badTime)
         THEN RatMul(Rat(record.goodTime, record.goodTime + record.badTime), RatInt(100))
         ELSE IF Truthy(record.goodFrames) /\ Truthy(record.badFrames)
              THEN RatMul(Rat(record.goodFrames, record.goodFrames + record.badFrames),
                          RatInt(100))
              ELSE RatInt(0)

\* Object.keys(dailyRecords).sort().reverse(): the dates that have records, latest first
RECURSIVE sortedDates(_)
sortedDates(keys) ==
    IF keys = {} THEN <<>>
    ELSE LET latest == CHOOSE k \in keys : \A j \in keys : j <= k
         IN  <<latest>> \o sortedDates(keys \ {latest})

\* dayRecords.some(record => goodPercent >= 50) for the records of one date
hasGoodPosture(data, date) ==
    \E i \in 1 .. Len(data) :
        dateKey(data[i]) = date /\ RatLe(RatInt(50), milestoneGoodPercent(data[i]))

\* the loop over sortedDates: counts up to the first date without a good record
RECURSIVE consecutiveDays(_, _)
consecutiveDays(data, dates) ==
    IF dates = <<>> THEN 0
    ELSE IF hasGoodPosture(data, Head(dates)) THEN 1 + consecutiveDays(data, Tail(dates))
         ELSE 0

achieve(milestone, count, now) ==
    IF count >= milestone.days /\ ~milestone.achieved
    THEN [milestone EXCEPT !.achieved = TRUE, !.date = <<now>>]
    ELSE milestone

\* updateMilestones(history) on the date now, then saveMilestones(); setThrows tells
\* whether localStorage.setItem throws
updateMilestones(m, item, history, now, setThrows) ==
    IF ~history.given \/ Len(history.data) = 0
    THEN [milestones |-> m, rehab_milestones |-> item, count |-> 0, raised |-> FALSE]
    ELSE LET keys == {dateKey(history.data[i]) : i \in 1 .. Len(history.data)}
             count == consecutiveDays(history.data, sortedDates(keys))
             updated == [bronze |-> achieve(m.bronze, count, now),
                         silver |-> achieve(m.silver, count, now),
                         gold |-> achieve(m.gold, count, now)]
         IN  [milestones |-> updated,
              rehab_milestones |-> IF setThrows THEN item ELSE stringifyMilestones(updated),
              count |-> count, raised |-> setThrows]

FirstDay == 100     \* the date the dashboard is first created
LastDay == 101      \* last date

DayRecord(day, entry) ==
    [startTime |-> day, hasSummary |-> entry.hasSummary,
     goodPercentage |-> entry.goodPercentage, goodTime |-> entry.goodTime,
     badTime |-> entry.badTime, goodFrames |-> entry.goodFrames,
     badFrames |-> entry.badFrames]

\* records of a day with a good posture: percentage 50 in odd places, percentage from
\* the times in even places
GoodEntry(i) == IF i % 2 = 1 THEN Entry(TRUE, 50, 0, 0, 0, 0) ELSE Entry(FALSE, 0, 30, 10, 0, 0)
\* a record of a day without
PoorEntry == Entry(TRUE, 49, 0, 0, 0, 0)

\* the history with one record on each of n dates, step days apart, the latest on the
\* date last and listed first; the record in place poorAt is a poor one
DailyHistory(last, n, step, poorAt) ==
    [given |-> TRUE,
     data |-> [i \in 1 .. n |->
                 DayRecord(last - (i - 1) * step, IF i = poorAt THEN PoorEntry ELSE GoodEntry(i))]]

RunLengths == {0, 2, 3, 7, 30}
DaySteps == {1, 2}
PoorPlaces == {0, 3}

MilestoneHistories ==
    {DailyHistory(FirstDay - 1, n, step, poorAt) :
        n \in RunLengths, step \in DaySteps, poorAt \in PoorPlaces}
        \cup {NoHistory}

NoMilestoneCall ==
    [op |-> "none", history |-> NoHistory, now |-> 0, count |-> 0, raised |-> FALSE,
     pre |-> MilestonesNew]

\* the page is reloaded: a dashboard is constructed
NewDashboard ==
    /\ milestones' = loadMilestones(rehab_milestones)
    /\ mlcall' = [op |-> "constructor", history |-> NoHistory, now |-> today, count |-> 0,
                  raised |-> FALSE, pre |-> milestones]
    /\ UNCHANGED <<hyst, hcall, band, smoother, scall, slog, fcall, currentThresholdMode,
                   sccall, pcall, localStorage, mcall, manager, acall, spcall, gcall,
                   fpcall, dcall, alert, clock, alog, postureHistory, historyState, today,
                   hscall, rehab_milestones>>

UpdateMilestones(history, setThrows) ==
    \E r \in {updateMilestones(milestones, rehab_milestones, history, today, setThrows)} :
        /\ milestones' = r.milestones
        /\ rehab_milestones' = r.rehab_milestones
        /\ mlcall' = [op |-> "updateMilestones", history |-> history, now |-> today,
                      count |-> r.count, raised |-> r.raised, pre |-> milestones]
        /\ UNCHANGED <<hyst, hcall, band, smoother, scall, slog, fcall, currentThresholdMode,
                       sccall, pcall, localStorage, mcall, manager, acall, spcall, gcall,
                       fpcall, dcall, alert, clock, alog, postureHistory, historyState,
                       today, hscall>>

\* midnight passes
NextDay ==
    /\ today < LastDay
    /\ today' = today + 1
    /\ UNCHANGED <<hyst, hcall, band, smoother, scall, slog, fcall, currentThresholdMode,
                   sccall, pcall, localStorage, mcall, manager, acall, spcall, gcall,
                   fpcall, dcall, alert, clock, alog, postureHistory, historyState, hscall,
                   milestones, rehab_milestones, mlcall>>

-----------------------------------------------------------------------------
(* Specifications, one per component; the other components stay as constructed *)

\* the evaluator is constructed with the limits of a profile and a margin
InitHyst ==
    /\ hyst \in {HystNew(p[1], p[2], hy) : p \in ThresholdPairs, hy \in 0 .. MaxHysteresis}
    /\ hcall = NoHystCall
    /\ band = NoBand
    /\ smoother = SmootherNew(1)
    /\ scall = NoSmoothCall
    /\ slog = <<>>
    /\ fcall = NoFusionCall
    /\ currentThresholdMode = "standard"
    /\ sccall = NoScoreCall
    /\ pcall = NoMetricCall
    /\ localStorage = Missing
    /\ mcall = NoModeCall
    /\ manager = ManagerNew(DEFAULT_NECK_THRESHOLD, DEFAULT_TORSO_THRESHOLD)
    /\ acall = NoManagerCall
    /\ spcall = NoSideCall
    /\ gcall = NoAngleCall
    /\ fpcall = NoFrontCall
    /\ dcall = NoStageCall
    /\ alert = AlertNew(16)
    /\ clock = 0
    /\ alog = <<>>
    /\ postureHistory = NoItem
    /\ historyState = <<>>
    /\ today = 0
    /\ hscall = NoHistoryCall
    /\ milestones = MilestonesNew
    /\ rehab_milestones = NoItem
    /\ mlcall = NoMilestoneCall

HystNext ==
    \/ \E n \in NeckAngles, t \in TorsoAngles : Evaluate(n, t)
    \/ \E p \in ThresholdPairs : UpdateThresholds(p[1], p[2])
    \/ HystReset

SpecHyst == InitHyst /\ [][HystNext]_vars

\* the smoother is constructed with a window size
InitSmoother ==
    /\ hyst = HystNew(DEFAULT_NECK_THRESHOLD, DEFAULT_TORSO_THRESHOLD, HYSTERESIS_VALUE)
    /\ hcall = NoHystCall
    /\ band = NoBand
    /\ smoother \in {SmootherNew(w) : w \in 1 .. MaxWindow}
    /\ scall = NoSmoothCall
    /\ slog = <<>>
    /\ fcall = NoFusionCall
    /\ currentThresholdMode = "standard"
    /\ sccall = NoScoreCall
    /\ pcall = NoMetricCall
    /\ localStorage = Missing
    /\ mcall = NoModeCall
    /\ manager = ManagerNew(DEFAULT_NECK_THRESHOLD, DEFAULT_TORSO_THRESHOLD)
    /\ acall = NoManagerCall
    /\ spcall = NoSideCall
    /\ gcall = NoAngleCall
    /\ fpcall = NoFrontCall
    /\ dcall = NoStageCall
    /\ alert = AlertNew(16)
    /\ clock = 0
    /\ alog = <<>>
    /\ postureHistory = NoItem
    /\ historyState = <<>>
    /\ today = 0
    /\ hscall = NoHistoryCall
    /\ milestones = MilestonesNew
    /\ rehab_milestones = NoItem
    /\ mlcall = NoMilestoneCall

SmootherNext ==
    \/ \E n \in RawNeck, t \in RawTorso : Smooth(n, t)
    \/ SmootherReset

SpecSmoother == InitSmoother /\ [][SmootherNext]_vars

\* median and calculateAngleWithFusion are pure: the call is drawn at the start
InitFusion ==
    /\ hyst = HystNew(DEFAULT_NECK_THRESHOLD, DEFAULT_TORSO_THRESHOLD, HYSTERESIS_VALUE)
    /\ hcall = NoHystCall
    /\ band = NoBand
    /\ smoother = SmootherNew(1)
    /\ scall = NoSmoothCall
    /\ slog = <<>>
    /\ fcall \in FusionCalls
    /\ currentThresholdMode = "standard"
    /\ sccall = NoScoreCall
    /\ pcall = NoMetricCall
    /\ localStorage = Missing
    /\ mcall = NoModeCall
    /\ manager = ManagerNew(DEFAULT_NECK_THRESHOLD, DEFAULT_TORSO_THRESHOLD)
    /\ acall = NoManagerCall
    /\ spcall = NoSideCall
    /\ gcall = NoAngleCall
    /\ fpcall = NoFrontCall
    /\ dcall = NoStageCall
    /\ alert = AlertNew(16)
    /\ clock = 0
    /\ alog = <<>>
    /\ postureHistory = NoItem
    /\ historyState = <<>>
    /\ today = 0
    /\ hscall = NoHistoryCall
    /\ milestones = MilestonesNew
    /\ rehab_milestones = NoItem
    /\ mlcall = NoMilestoneCall

FusionNext == Median \/ Fusion

SpecFusion == InitFusion /\ [][FusionNext]_vars

\* the scoring functions read only their arguments and the active mode: the call and
\* the mode left active by start-up and setThresholdMode are drawn at the start
InitScore ==
    /\ hyst = HystNew(DEFAULT_NECK_THRESHOLD, DEFAULT_TORSO_THRESHOLD, HYSTERESIS_VALUE)
    /\ hcall = NoHystCall
    /\ band = NoBand
    /\ smoother = SmootherNew(1)
    /\ scall = NoSmoothCall
    /\ slog = <<>>
    /\ fcall = NoFusionCall
    /\ currentThresholdMode \in ModeNames \cup InheritedNames
    /\ sccall \in ScoreCalls
    /\ pcall = NoMetricCall
    /\ localStorage = Missing
    /\ mcall = NoModeCall
    /\ manager = ManagerNew(DEFAULT_NECK_THRESHOLD, DEFAULT_TORSO_THRESHOLD)
    /\ acall = NoManagerCall
    /\ spcall = NoSideCall
    /\ gcall = NoAngleCall
    /\ fpcall = NoFrontCall
    /\ dcall = NoStageCall
    /\ alert = AlertNew(16)
    /\ clock = 0
    /\ alog = <<>>
    /\ postureHistory = NoItem
    /\ historyState = <<>>
    /\ today = 0
    /\ hscall = NoHistoryCall
    /\ milestones = MilestonesNew
    /\ rehab_milestones = NoItem
    /\ mlcall = NoMilestoneCall

ScoreNext == ScoreFront \/ ScoreSide

SpecScore == InitScore /\ [][ScoreNext]_vars

\* a per-metric score function is called with one weight and one threshold at the
\* three values
InitMetric ==
    /\ hyst = HystNew(DEFAULT_NECK_THRESHOLD, DEFAULT_TORSO_THRESHOLD, HYSTERESIS_VALUE)
    /\ hcall = NoHystCall
    /\ band = NoBand
    /\ smoother = SmootherNew(1)
    /\ scall = NoSmoothCall
    /\ slog = <<>>
    /\ fcall = NoFusionCall
    /\ currentThresholdMode = "standard"
    /\ sccall = NoScoreCall
    /\ pcall \in MetricCalls
    /\ localStorage = Missing
    /\ mcall = NoModeCall
    /\ manager = ManagerNew(DEFAULT_NECK_THRESHOLD, DEFAULT_TORSO_THRESHOLD)
    /\ acall = NoManagerCall
    /\ spcall = NoSideCall
    /\ gcall = NoAngleCall
    /\ fpcall = NoFrontCall
    /\ dcall = NoStageCall
    /\ alert = AlertNew(16)
    /\ clock = 0
    /\ alog = <<>>
    /\ postureHistory = NoItem
    /\ historyState = <<>>
    /\ today = 0
    /\ hscall = NoHistoryCall
    /\ milestones = MilestonesNew
    /\ rehab_milestones = NoItem
    /\ mlcall = NoMilestoneCall

MetricNext == \E p \in Points : ProgressiveScore(p) \/ AngleProgressiveScore(p)

SpecMetric == InitMetric /\ [][MetricNext]_vars

\* before constants.js is evaluated the store holds any string or nothing
InitMode ==
    /\ hyst = HystNew(DEFAULT_NECK_THRESHOLD, DEFAULT_TORSO_THRESHOLD, HYSTERESIS_VALUE)
    /\ hcall = NoHystCall
    /\ band = NoBand
    /\ smoother = SmootherNew(1)
    /\ scall = NoSmoothCall
    /\ slog = <<>>
    /\ fcall = NoFusionCall
    /\ currentThresholdMode = "standard"
    /\ sccall = NoScoreCall
    /\ pcall = NoMetricCall
    /\ localStorage \in StoredValues
    /\ mcall = NoModeCall
    /\ manager = ManagerNew(DEFAULT_NECK_THRESHOLD, DEFAULT_TORSO_THRESHOLD)
    /\ acall = NoManagerCall
    /\ spcall = NoSideCall
    /\ gcall = NoAngleCall
    /\ fpcall = NoFrontCall
    /\ dcall = NoStageCall
    /\ alert = AlertNew(16)
    /\ clock = 0
    /\ alog = <<>>
    /\ postureHistory = NoItem
    /\ historyState = <<>>
    /\ today = 0
    /\ hscall = NoHistoryCall
    /\ milestones = MilestonesNew
    /\ rehab_milestones = NoItem
    /\ mlcall = NoMilestoneCall

ModeNext ==
    \/ \E getThrows \in BOOLEAN : Startup(getThrows)
    \/ \E mode \in RequestedNames, hasCallback \in BOOLEAN, setThrows \in BOOLEAN :
            SetThresholdMode(mode, hasCallback, setThrows)

SpecMode == InitMode /\ [][ModeNext]_vars

\* the manager is constructed with its base limits
InitManager ==
    /\ hyst = HystNew(DEFAULT_NECK_THRESHOLD, DEFAULT_TORSO_THRESHOLD, HYSTERESIS_VALUE)
    /\ hcall = NoHystCall
    /\ band = NoBand
    /\ smoother = SmootherNew(1)
    /\ scall = NoSmoothCall
    /\ slog = <<>>
    /\ fcall = NoFusionCall
    /\ currentThresholdMode = "standard"
    /\ sccall = NoScoreCall
    /\ pcall = NoMetricCall
    /\ localStorage = Missing
    /\ mcall = NoModeCall
    /\ manager \in {ManagerNew(b[1], b[2]) : b \in ManagerBases}
    /\ acall = NoManagerCall
    /\ spcall = NoSideCall
    /\ gcall = NoAngleCall
    /\ fpcall = NoFrontCall
    /\ dcall = NoStageCall
    /\ alert = AlertNew(16)
    /\ clock = 0
    /\ alog = <<>>
    /\ postureHistory = NoItem
    /\ historyState = <<>>
    /\ today = 0
    /\ hscall = NoHistoryCall
    /\ milestones = MilestonesNew
    /\ rehab_milestones = NoItem
    /\ mlcall = NoMilestoneCall

ManagerNext ==
    \/ GetThresholds
    \/ \E history \in Histories : UpdateRehabLevel(history)
    \/ \E level \in LevelArguments : SetRehabLevel(level)

SpecManager == InitManager /\ [][ManagerNext]_vars

\* analyzeSidePosture reads its frame and the active mode: the frame and the mode left
\* active by start-up and setThresholdMode are drawn at the start
InitSide ==
    /\ hyst = HystNew(DEFAULT_NECK_THRESHOLD, DEFAULT_TORSO_THRESHOLD, HYSTERESIS_VALUE)
    /\ hcall = NoHystCall
    /\ band = NoBand
    /\ smoother = SmootherNew(1)
    /\ scall = NoSmoothCall
    /\ slog = <<>>
    /\ fcall = NoFusionCall
    /\ currentThresholdMode \in ModeNames \cup InheritedNames
    /\ sccall = NoScoreCall
    /\ pcall = NoMetricCall
    /\ localStorage = Missing
    /\ mcall = NoModeCall
    /\ manager = ManagerNew(DEFAULT_NECK_THRESHOLD, DEFAULT_TORSO_THRESHOLD)
    /\ acall = NoManagerCall
    /\ spcall \in {[op |-> "call", frame |-> f, ret |-> Unavailable] : f \in SideFrames}
    /\ gcall = NoAngleCall
    /\ fpcall = NoFrontCall
    /\ dcall = NoStageCall
    /\ alert = AlertNew(16)
    /\ clock = 0
    /\ alog = <<>>
    /\ postureHistory = NoItem
    /\ historyState = <<>>
    /\ today = 0
    /\ hscall = NoHistoryCall
    /\ milestones = MilestonesNew
    /\ rehab_milestones = NoItem
    /\ mlcall = NoMilestoneCall

SideNext == AnalyzeSidePosture

SpecSide == InitSide /\ [][SideNext]_vars

\* the core numeric operations on degenerate inputs: an angle between points that
\* may coincide or be missing, and a score against thresholds one of which is 0
InitDegenerate ==
    /\ hyst = HystNew(DEFAULT_NECK_THRESHOLD, DEFAULT_TORSO_THRESHOLD, HYSTERESIS_VALUE)
    /\ hcall = NoHystCall
    /\ band = NoBand
    /\ smoother = SmootherNew(1)
    /\ scall = NoSmoothCall
    /\ slog = <<>>
    /\ fcall = NoFusionCall
    /\ currentThresholdMode = "standard"
    /\ sccall \in ZeroThresholdCalls
    /\ pcall = NoMetricCall
    /\ localStorage = Missing
    /\ mcall = NoModeCall
    /\ manager = ManagerNew(DEFAULT_NECK_THRESHOLD, DEFAULT_TORSO_THRESHOLD)
    /\ acall = NoManagerCall
    /\ spcall = NoSideCall
    /\ gcall \in AngleCalls
    /\ fpcall = NoFrontCall
    /\ dcall = NoStageCall
    /\ alert = AlertNew(16)
    /\ clock = 0
    /\ alog = <<>>
    /\ postureHistory = NoItem
    /\ historyState = <<>>
    /\ today = 0
    /\ hscall = NoHistoryCall
    /\ milestones = MilestonesNew
    /\ rehab_milestones = NoItem
    /\ mlcall = NoMilestoneCall

DegenerateNext == CalculateAnglePrecise \/ ScoreFront \/ ScoreSide

SpecDegenerate == InitDegenerate /\ [][DegenerateNext]_vars

\* analyzeFrontPosture is called once on a frame, with or without a shoulder limit
\* of the caller, under the profile left active by start-up and setThresholdMode
InitFront ==
    /\ hyst = HystNew(DEFAULT_NECK_THRESHOLD, DEFAULT_TORSO_THRESHOLD, HYSTERESIS_VALUE)
    /\ hcall = NoHystCall
    /\ band = NoBand
    /\ smoother = SmootherNew(1)
    /\ scall = NoSmoothCall
    /\ slog = <<>>
    /\ fcall = NoFusionCall
    /\ currentThresholdMode \in ModeNames
    /\ sccall = NoScoreCall
    /\ pcall = NoMetricCall
    /\ localStorage = Missing
    /\ mcall = NoModeCall
    /\ manager = ManagerNew(DEFAULT_NECK_THRESHOLD, DEFAULT_TORSO_THRESHOLD)
    /\ acall = NoManagerCall
    /\ spcall = NoSideCall
    /\ gcall = NoAngleCall
    /\ fpcall = NoFrontCall
    /\ dcall = NoStageCall
    /\ alert = AlertNew(16)
    /\ clock = 0
    /\ alog = <<>>
    /\ postureHistory = NoItem
    /\ historyState = <<>>
    /\ today = 0
    /\ hscall = NoHistoryCall
    /\ milestones = MilestonesNew
    /\ rehab_milestones = NoItem
    /\ mlcall = NoMilestoneCall

FrontNext ==
    \E frame \in FrontFrames, shoulderArg \in FrontArgs :
        fpcall.op = "idle" /\ AnalyzeFrontPosture(frame, shoulderArg, <<>>)

SpecFront == InitFront /\ [][FrontNext]_vars

\* a session swaps the profile between frames and analyses one side-view and one
\* front-view frame at some point, or it swaps the evaluator's thresholds between
\* evaluations; the profile and the evaluator share no state
SwapNeckAngles == {37, 44, 50}
SwapTorsoAngles == {0, 21}

InitSwap ==
    /\ hyst = HystNew(DEFAULT_NECK_THRESHOLD, DEFAULT_TORSO_THRESHOLD, HYSTERESIS_VALUE)
    /\ hcall = NoHystCall
    /\ band = NoBand
    /\ smoother = SmootherNew(1)
    /\ scall = NoSmoothCall
    /\ slog = <<>>
    /\ fcall = NoFusionCall
    /\ currentThresholdMode = "standard"
    /\ sccall = NoScoreCall
    /\ pcall = NoMetricCall
    /\ localStorage = Missing
    /\ mcall = NoModeCall
    /\ manager = ManagerNew(DEFAULT_NECK_THRESHOLD, DEFAULT_TORSO_THRESHOLD)
    /\ acall = NoManagerCall
    /\ spcall \in {NoSideCall}
                    \cup {[op |-> "call", frame |-> f, ret |-> Unavailable] : f \in SwapFrames}
    /\ gcall = NoAngleCall
    /\ fpcall = NoFrontCall
    /\ dcall = NoStageCall
    /\ alert = AlertNew(16)
    /\ clock = 0
    /\ alog = <<>>
    /\ postureHistory = NoItem
    /\ historyState = <<>>
    /\ today = 0
    /\ hscall = NoHistoryCall
    /\ milestones = MilestonesNew
    /\ rehab_milestones = NoItem
    /\ mlcall = NoMilestoneCall

SwapNext ==
    \/ spcall.op # "idle" /\ Startup(FALSE)
    \/ \E mode \in ModeNames \cup UnknownNames :
            spcall.op # "idle" /\ SetThresholdMode(mode, FALSE, FALSE)
    \/ AnalyzeSidePosture
    \/ \E f \in SwapFrontFrames :
            spcall.op # "idle" /\ fpcall.op = "idle" /\ AnalyzeFrontPosture(f, <<>>, <<>>)
    \/ \E p \in ThresholdPairs : spcall.op = "idle" /\ UpdateThresholds(p[1], p[2])
    \/ \E n \in SwapNeckAngles, t \in SwapTorsoAngles :
            spcall.op = "idle" /\ Evaluate(n, t)

SpecSwap == InitSwap /\ [][SwapNext]_vars

\* one history is classified by the manager and by the dashboard, in either order
InitStage ==
    /\ hyst = HystNew(DEFAULT_NECK_THRESHOLD, DEFAULT_TORSO_THRESHOLD, HYSTERESIS_VALUE)
    /\ hcall = NoHystCall
    /\ band = NoBand
    /\ smoother = SmootherNew(1)
    /\ scall = NoSmoothCall
    /\ slog = <<>>
    /\ fcall = NoFusionCall
    /\ currentThresholdMode = "standard"
    /\ sccall = NoScoreCall
    /\ pcall = NoMetricCall
    /\ localStorage = Missing
    /\ mcall = NoModeCall
    /\ manager = ManagerNew(DEFAULT_NECK_THRESHOLD, DEFAULT_TORSO_THRESHOLD)
    /\ acall = NoManagerCall
    /\ spcall = NoSideCall
    /\ gcall = NoAngleCall
    /\ fpcall = NoFrontCall
    /\ dcall \in {[op |-> "call", history |-> h, ret |-> "early"] : h \in Histories}
    /\ alert = AlertNew(16)
    /\ clock = 0
    /\ alog = <<>>
    /\ postureHistory = NoItem
    /\ historyState = <<>>
    /\ today = 0
    /\ hscall = NoHistoryCall
    /\ milestones = MilestonesNew
    /\ rehab_milestones = NoItem
    /\ mlcall = NoMilestoneCall

StageNext ==
    \/ acall.op = "none" /\ UpdateRehabLevel(dcall.history)
    \/ GetCurrentRehabStage

SpecStage == InitStage /\ [][StageNext]_vars

\* the alert system is created with alertInterval 16 and lastAlertTimeRef 0; frames are
\* checked and alerts triggered in any order while the clock runs
InitAlert ==
    /\ hyst = HystNew(DEFAULT_NECK_THRESHOLD, DEFAULT_TORSO_THRESHOLD, HYSTERESIS_VALUE)
    /\ hcall = NoHystCall
    /\ band = NoBand
    /\ smoother = SmootherNew(1)
    /\ scall = NoSmoothCall
    /\ slog = <<>>
    /\ fcall = NoFusionCall
    /\ currentThresholdMode = "standard"
    /\ sccall = NoScoreCall
    /\ pcall = NoMetricCall
    /\ localStorage = Missing
    /\ mcall = NoModeCall
    /\ manager = ManagerNew(DEFAULT_NECK_THRESHOLD, DEFAULT_TORSO_THRESHOLD)
    /\ acall = NoManagerCall
    /\ spcall = NoSideCall
    /\ gcall = NoAngleCall
    /\ fpcall = NoFrontCall
    /\ dcall = NoStageCall
    /\ alert = AlertNew(16)
    /\ clock = INITIAL_CLOCK
    /\ alog = <<>>
    /\ postureHistory = NoItem
    /\ historyState = <<>>
    /\ today = 0
    /\ hscall = NoHistoryCall
    /\ milestones = MilestonesNew
    /\ rehab_milestones = NoItem
    /\ mlcall = NoMilestoneCall

AlertNext ==
    \/ \E isGoodPosture \in BOOLEAN, delay \in Delays, skew \in 0 .. 1 :
            CheckPostureAlert(isGoodPosture, delay, skew)
    \/ \E level \in AlertLevels, delay \in Delays : TriggerProgressiveAlert(level, delay)
    \/ \E delay \in Delays : TriggerAlert(delay)

SpecAlert == InitAlert /\ [][AlertNext]_vars

\* the page is opened on whatever is stored; recordings are saved and records deleted as
\* the days go by, the store accepting or rejecting each write
InitHistory ==
    /\ hyst = HystNew(DEFAULT_NECK_THRESHOLD, DEFAULT_TORSO_THRESHOLD, HYSTERESIS_VALUE)
    /\ hcall = NoHystCall
    /\ band = NoBand
    /\ smoother = SmootherNew(1)
    /\ scall = NoSmoothCall
    /\ slog = <<>>
    /\ fcall = NoFusionCall
    /\ currentThresholdMode = "standard"
    /\ sccall = NoScoreCall
    /\ pcall = NoMetricCall
    /\ localStorage = Missing
    /\ mcall = NoModeCall
    /\ manager = ManagerNew(DEFAULT_NECK_THRESHOLD, DEFAULT_TORSO_THRESHOLD)
    /\ acall = NoManagerCall
    /\ spcall = NoSideCall
    /\ gcall = NoAngleCall
    /\ fpcall = NoFrontCall
    /\ dcall = NoStageCall
    /\ alert = AlertNew(16)
    /\ clock = 0
    /\ alog = <<>>
    /\ postureHistory \in InitialItems
    /\ historyState = <<>>
    /\ today = 0
    /\ hscall = NoHistoryCall
    /\ milestones = MilestonesNew
    /\ rehab_milestones = NoItem
    /\ mlcall = NoMilestoneCall

HistoryNext ==
    \/ \E getThrows \in BOOLEAN : LoadHistory(getThrows)
    \/ \E id \in RecordIds, first \in SetItemOutcomes :
         \E second \in IF first = "QuotaExceededError" THEN {"ok", first} ELSE {"ok"} :
            SaveHistory(id, first, second)
    \/ \E id \in RecordIds, confirmed \in BOOLEAN :
         \E setThrows \in IF confirmed THEN BOOLEAN ELSE {FALSE} :
            DeleteRecord(id, confirmed, setThrows)
    \/ \E days \in DayGaps : PassDays(days)

SpecHistory == InitHistory /\ [][HistoryNext]_vars

\* a dashboard is constructed on an empty or unreadable store; it is given histories,
\* the page is reloaded and the days go by
InitMilestones ==
    /\ hyst = HystNew(DEFAULT_NECK_THRESHOLD, DEFAULT_TORSO_THRESHOLD, HYSTERESIS_VALUE)
    /\ hcall = NoHystCall
    /\ band = NoBand
    /\ smoother = SmootherNew(1)
    /\ scall = NoSmoothCall
    /\ slog = <<>>
    /\ fcall = NoFusionCall
    /\ currentThresholdMode = "standard"
    /\ sccall = NoScoreCall
    /\ pcall = NoMetricCall
    /\ localStorage = Missing
    /\ mcall = NoModeCall
    /\ manager = ManagerNew(DEFAULT_NECK_THRESHOLD, DEFAULT_TORSO_THRESHOLD)
    /\ acall = NoManagerCall
    /\ spcall = NoSideCall
    /\ gcall = NoAngleCall
    /\ fpcall = NoFrontCall
    /\ dcall = NoStageCall
    /\ alert = AlertNew(16)
    /\ clock = 0
    /\ alog = <<>>
    /\ postureHistory = NoItem
    /\ historyState = <<>>
    /\ today = FirstDay
    /\ hscall = NoHistoryCall
    /\ milestones = MilestonesNew
    /\ rehab_milestones \in {NoItem, BrokenItem}
    /\ mlcall = NoMilestoneCall

MilestonesNext ==
    \/ NewDashboard
    \/ \E history \in MilestoneHistories, setThrows \in BOOLEAN :
            UpdateMilestones(history, setThrows)
    \/ NextDay

SpecMilestones == InitMilestones /\ [][MilestonesNext]_vars

-----------------------------------------------------------------------------
(* Properties *)

UpperEdgeReached(h, neckAngle, torsoAngle) ==
    \/ neckAngle >= h.neckThreshold + h.hysteresis
    \/ torsoAngle >= h.torsoThreshold + h.hysteresis

BelowLowerEdges(h, neckAngle, torsoAngle) ==
    /\ neckAngle < h.neckThreshold - h.hysteresis
    /\ torsoAngle < h.torsoThreshold - h.hysteresis

C2_BadToGood ==
    [][(hcall'.op = "evaluate" /\ hyst.currentState = "bad") =>
        IF BelowLowerEdges(hyst, hcall'.neck, hcall'.torso)
        THEN hyst'.currentState = "good" /\ hcall'.ret = TRUE
        ELSE hyst'.currentState = "bad" /\ hcall'.ret = FALSE]_vars

\* evaluate has stayed bad with the neck below its lower edge and the torso exactly on its
\* lower edge
C2_Witness ==
    /\ hcall.op = "evaluate" /\ hcall.pre = "bad"
    /\ hyst.currentState = "bad" /\ hcall.ret = FALSE
    /\ hcall.neck < hyst.neckThreshold - hyst.hysteresis
    /\ hcall.torso = hyst.torsoThreshold - hyst.hysteresis

IsExample ==
    /\ hyst.neckThreshold = 40 /\ hyst.torsoThreshold = 15 /\ hyst.hysteresis = 2

\* C3: during any run of evaluate calls whose inputs all lie in the dead band (neck in
\* [neckThreshold - hysteresis, neckThreshold + hysteresis), torso below
\* torsoThreshold + hysteresis) the state is the one the run started in.  With 40/15 and
\* hysteresis 2: neck 39 and 41 never change the state, 43 moves good to bad.
C3_NoFlicker ==
    /\ band.start # "none" => hyst.currentState = band.start
    /\ (IsExample /\ hcall.op = "evaluate" /\ hcall.neck \in {39, 41} /\ hcall.torso < 17)
            => hyst.currentState = hcall.pre
    /\ (IsExample /\ hcall.op = "evaluate" /\ hcall.neck = 43 /\ hcall.pre = "good")
            => hyst.currentState = "bad"

\* a run of MaxRun dead-band samples that began in state bad, thresholds 40/15, margin 2,
\* last neck sample 39
C3_Witness ==
    /\ IsExample
    /\ band.start = "bad" /\ band.len = MaxRun
    /\ hcall.op = "evaluate" /\ hcall.neck = 39
    /\ hyst.currentState = "bad"

\* C4: updateThresholds replaces the two thresholds and leaves currentState and hysteresis
\* alone; reset sets currentState to good and leaves thresholds and hysteresis alone.
C4_Frame ==
    [][/\ hcall'.op = "updateThresholds" =>
            /\ hyst'.neckThreshold = hcall'.neck
            /\ hyst'.torsoThreshold = hcall'.torso
            /\ hyst'.currentState = hyst.currentState
            /\ hyst'.hysteresis = hyst.hysteresis
       /\ hcall'.op = "reset" =>
            /\ hyst'.currentState = "good"
            /\ hyst'.neckThreshold = hyst.neckThreshold
            /\ hyst'.torsoThreshold = hyst.torsoThreshold
            /\ hyst'.hysteresis = hyst.hysteresis]_vars

\* updateThresholds has been called in state bad, with thresholds other than the defaults
C4_Witness ==
    /\ hcall.op = "updateThresholds" /\ hcall.pre = "bad"
    /\ hyst.currentState = "bad"
    /\ hyst.neckThreshold = 50 /\ hyst.torsoThreshold = 25

MinOf(a, b) == IF a < b THEN a ELSE b

\* the last m entries of the log, component c (1 = neck, 2 = torso)
LastRaw(m, c) == [i \in 1 .. m |-> slog[Len(slog) - m + i][c]]

\* C5: each window holds exactly the last min(k, W) raw values passed to smooth since the
\* last reset, in arrival order, and never more than W values.
C5_Window ==
    LET m == MinOf(Len(slog), smoother.windowSize) IN
    /\ smoother.neckHistory = LastRaw(m, 1)
    /\ smoother.torsoHistory = LastRaw(m, 2)
    /\ Len(smoother.neckHistory) <= smoother.windowSize
    /\ Len(smoother.torsoHistory) <= smoother.windowSize

\* two values have been evicted from a window of size 2 whose oldest raw value differs
\* from the one now at the front
C5_Witness ==
    /\ smoother.windowSize = 2
    /\ Len(slog) = 4
    /\ slog[1][1] # slog[3][1]
    /\ smoother.neckHistory = <<slog[3][1], slog[4][1]>>

RECURSIVE WeightedSum(_, _)
\* 1 * x[1] + 2 * x[2] + ... + k * x[k]
WeightedSum(x, k) == IF k = 0 THEN 0 ELSE WeightedSum(x, k - 1) + k * x[k]

IsLinearAverage(out, x) ==
    out.n * ((Len(x) * (Len(x) + 1)) \div 2) = WeightedSum(x, Len(x)) * out.d

\* C6: smooth returns for each metric the linearly weighted average of its window:
\* output * (1 + ... + n) = 1 * x_1 + ... + n * x_n; window size 3 with inputs
\* 10, 20, 30 gives 140/6 as the third output.
C6_WeightedAverage ==
    scall.op = "smooth" =>
        /\ IsLinearAverage(scall.ret.neck, smoother.neckHistory)
        /\ IsLinearAverage(scall.ret.torso, smoother.torsoHistory)
        /\ (smoother.windowSize = 3 /\ LastRaw(Len(slog), 1) = <<10, 20, 30>>)
                => scall.ret.neck.n * 6 = 140 * scall.ret.neck.d

\* the third output of a window of size 3 fed 10, 20, 30
C6_Witness ==
    /\ scall.op = "smooth"
    /\ smoother.windowSize = 3
    /\ smoother.neckHistory = <<10, 20, 30>>
    /\ scall.ret.neck = [n |-> 70, d |-> 3]

\* C7: reset clears both windows, and the first smooth call of a new smoother or after a
\* reset returns the raw pair itself.
C7_ResetFirstRaw ==
    /\ scall.op = "reset" => smoother.neckHistory = <<>> /\ smoother.torsoHistory = <<>>
    /\ (scall.op = "smooth" /\ Len(slog) = 1) =>
            /\ scall.ret.neck = RatInt(scall.neck)
            /\ scall.ret.torso = RatInt(scall.torso)

\* the first smooth call after a reset that cleared a non-empty window
C7_Witness ==
    /\ scall.op = "smooth" /\ Len(slog) = 1 /\ scall.since = "reset"
    /\ scall.ret = [neck |-> RatInt(30), torso |-> RatInt(15)]

\* the k-th smallest element of a non-empty sequence, by rank
Kth(p, k) ==
    CHOOSE x \in {p[i] : i \in 1 .. Len(p)} :
        /\ Cardinality({i \in 1 .. Len(p) : p[i] < x}) < k
        /\ k <= Cardinality({i \in 1 .. Len(p) : p[i] <= x})

IsMedianOfPositives(out, est) ==
    LET p == SelectSeq(est, LAMBDA v : v > 0)
        n == Len(p)
    IN  IF n = 0 THEN out = RatInt(0)
        ELSE IF n % 2 = 1 THEN out = RatInt(Kth(p, (n + 1) \div 2))
        ELSE out.n * 2 = (Kth(p, n \div 2) + Kth(p, n \div 2 + 1)) * out.d

\* C8: the fused result is the median of the strictly positive estimates: the middle
\* value of an odd count, the average of the two central values of an even count, 0 when
\* none is positive; estimates 20, 22, 95 give 22.
C8_Median ==
    fcall.op = "done" =>
        /\ IsMedianOfPositives(fcall.ret, fcall.est)
        /\ fcall.est = <<20, 22, 95>> => fcall.ret = RatInt(22)

\* neck fusion of the three estimates 20, 22, 95
C8_Witness ==
    /\ fcall.op = "done" /\ fcall.fn = "neck"
    /\ fcall.est = <<20, 22, 95>>
    /\ fcall.ret = RatInt(22)

RECURSIVE RatSum(_, _)
\* the sum of f over the set S
RatSum(f, S) ==
    IF S = {} THEN RatInt(0)
    ELSE LET x == CHOOSE y \in S : TRUE IN RatAdd(f[x], RatSum(f, S \ {x}))

\* C9: in every scoring call the weights of the metrics that contribute to the score (the
\* entries of the breakdown) sum to 1.
C9_WeightsSumToOne ==
    sccall.op = "done" => RatSum(sccall.ret.weights, DOMAIN sccall.ret.breakdown) = One

\* C10: the score lies in [0, 1], equals the sum of the breakdown entries, and every
\* breakdown entry lies in [0, weight of its metric].
C10_ScoreRange ==
    sccall.op = "done" =>
        LET r == sccall.ret IN
        /\ RatLe(RatInt(0), r.score) /\ RatLe(r.score, One)
        /\ r.score = RatSum(r.breakdown, DOMAIN r.breakdown)
        /\ \A m \in DOMAIN r.breakdown :
                RatLe(RatInt(0), r.breakdown[m]) /\ RatLe(r.breakdown[m], r.weights[m])

\* a front-view call in the special mode that scores all four metrics, one of them
\* earning nothing and one earning its whole weight
C10_Witness ==
    /\ sccall.op = "done" /\ sccall.fn = "front" /\ sccall.isSCIMode
    /\ "spinal" \in DOMAIN sccall.ret.breakdown
    /\ sccall.ret.breakdown["shoulder"] = RatInt(0)
    /\ sccall.ret.breakdown["hip"] = sccall.ret.weights["hip"]

\* C11: for one metric with a fixed weight and threshold t, in the front-view and in the
\* side-view per-metric score, the score at 0.5 t is above the score at 0.99 t, which is
\* above the score at 1.5 t.
C11_Monotone ==
    LET s == pcall.scores IN
    /\ {"half", "near"} \subseteq DOMAIN s => RatLt(s["near"], s["half"])
    /\ {"near", "over"} \subseteq DOMAIN s => RatLt(s["over"], s["near"])

\* the side-view function has scored all three values with weight 0.5
C11_Witness ==
    /\ pcall.fn = "side" /\ DOMAIN pcall.scores = Points
    /\ pcall.weight = Rat(1, 2)
    /\ pcall.scores["half"] = Rat(1, 2)

\* C12: the front-view score is accepted when it reaches the weightedScoreThreshold of
\* the active profile; the side-view score is accepted when it reaches 0.85 in standard
\* mode and 0.75 in special mode, whichever profile is active.
C12_Acceptance ==
    sccall.op = "done" =>
        LET r == sccall.ret IN
        /\ (sccall.fn = "front" /\ currentThresholdMode \in ModeNames) =>
                (r.isGood <=>
                    RatLe(SCI_THRESHOLDS[currentThresholdMode].weightedScoreThreshold, r.score))
        /\ sccall.fn = "side" =>
                (r.isGood <=>
                    RatLe(IF sccall.isSCIMode THEN Rat(75, 100) ELSE Rat(85, 100), r.score))

\* a side-view score the active profile's ratio would accept is rejected
C12_Witness ==
    /\ sccall.op = "done" /\ sccall.fn = "side" /\ ~sccall.isSCIMode
    /\ currentThresholdMode = "standard"
    /\ RatLe(Rat(70, 100), sccall.ret.score) /\ RatLt(sccall.ret.score, Rat(85, 100))
    /\ ~sccall.ret.isGood

\* the side-view call of the scenario: limits 40 / 15, standard mode, neck 45, torso 10
IsScenario ==
    /\ sccall.fn = "side" /\ ~sccall.isSCIMode
    /\ sccall.thresholds = [neck |-> 40, torso |-> 15]
    /\ sccall.metrics = [neckAngle |-> 45, torsoAngle |-> 10]

\* C13: with limits 40 / 15 in standard mode, neck 45 and torso 10 give a torso
\* contribution of exactly 0.5, a neck contribution of 0.5 * (1 - sqrt(0.125 * 1.5)) (the
\* root taken to 1/SqrtScale), a score below 0.85 and isGood false.
C13_Scenario ==
    (sccall.op = "done" /\ IsScenario) =>
        LET r == sccall.ret
            \* the penalty p the neck contribution 0.5 * (1 - p) stands for
            p == RatSub(One, RatMul(RatInt(2), r.breakdown.neck))
        IN  /\ r.breakdown.torso = Rat(1, 2)
            /\ RatLe(RatInt(0), p)
            /\ RatLe(RatMul(p, p), Rat(1875, 10000))
            /\ RatLt(Rat(1875, 10000),
                     RatMul(RatAdd(p, Rat(1, SqrtScale)), RatAdd(p, Rat(1, SqrtScale))))
            /\ r.score = RatAdd(r.breakdown.neck, r.breakdown.torso)
            /\ RatLt(r.score, Rat(85, 100))
            /\ ~r.isGood

C13_Witness == sccall.op = "done" /\ IsScenario /\ sccall.ret.percentage = 78

Profiles == {SCI_THRESHOLDS[m] : m \in ModeNames}

\* C14: after start-up with any stored string or none, and after any setThresholdMode
\* calls with any names, the active mode is one of the three profile names and
\* getCurrentThresholds returns its record; a stored or requested name that is none of
\* the three never becomes active: start-up falls back to standard, setThresholdMode
\* leaves the active mode and the store as they were.
C14_OneDefinedProfile ==
    mcall.op # "none" =>
        /\ currentThresholdMode \in ModeNames
        /\ getCurrentThresholds \in Profiles
        /\ (mcall.op = "load" /\ mcall.pre.localStorage \notin ModeNames) =>
                currentThresholdMode = "standard"
        /\ (mcall.op = "set" /\ mcall.mode \notin ModeNames) =>
                /\ currentThresholdMode = mcall.pre.currentThresholdMode
                /\ localStorage = mcall.pre.localStorage

C16_FailuresSwallowed ==
    LET failing == \/ mcall.op = "load" /\ (mcall.throws \/ mcall.pre.localStorage = Missing)
                   \/ mcall.op = "set" /\ mcall.throws
    IN  failing =>
            /\ ~mcall.raised
            /\ currentThresholdMode \in ModeNames
            /\ (mcall.op = "set" /\ mcall.hasCallback /\ mcall.mode \in ModeNames) =>
                    mcall.called = <<mcall.mode>>

LevelMultiplier(level) ==
    CASE level = "early" -> [neck |-> Rat(3, 2), torso |-> RatInt(2)]
      [] level = "middle" -> [neck |-> Rat(6, 5), torso |-> Rat(3, 2)]
      [] level = "late" -> [neck |-> RatInt(1), torso |-> RatInt(1)]

\* C17: the level is always early, middle or late; getThresholds returns the base limits
\* times the multipliers of the current level, (1.5, 2.0), (1.2, 1.5), (1.0, 1.0);
\* setRehabLevel with an unknown level changes nothing; base neck 40 at level early
\* gives 60.
C17_Thresholds ==
    /\ manager.rehabLevel \in Levels
    /\ acall.op = "getThresholds" =>
            /\ ~acall.ret.raised
            /\ acall.ret.neck = RatMul(RatInt(manager.baseNeckThreshold),
                                       LevelMultiplier(manager.rehabLevel).neck)
            /\ acall.ret.torso = RatMul(RatInt(manager.baseTorsoThreshold),
                                        LevelMultiplier(manager.rehabLevel).torso)
            /\ (manager.baseNeckThreshold = 40 /\ manager.rehabLevel = "early") =>
                    acall.ret.neck = RatInt(60)
    /\ (acall.op = "setRehabLevel" /\ acall.level \notin Levels) => manager = acall.pre

\* getThresholds on a manager with base (40, 15) that is at level early
C17_Witness ==
    /\ acall.op = "getThresholds"
    /\ manager = ManagerNew(40, 15)
    /\ acall.ret.neck = RatInt(60) /\ acall.ret.torso = RatInt(30)

\* the last RECENT_ENTRIES entries of an array, or all of it when it is shorter
LastEntries(data) ==
    [i \in 1 .. MinOf(Len(data), RECENT_ENTRIES) |->
        data[Len(data) - MinOf(Len(data), RECENT_ENTRIES) + i]]

\* the good percentage of one entry: the summary's when there is one, else from the
\* time counts or the frame counts, whichever the entry carries
GoodPercentageOf(e) ==
    IF e.hasSummary THEN RatInt(e.goodPercentage)
    ELSE IF e.goodTime + e.badTime > 0 THEN Rat(100 * e.goodTime, e.goodTime + e.badTime)
    ELSE IF e.goodFrames + e.badFrames > 0
         THEN Rat(100 * e.goodFrames, e.goodFrames + e.badFrames)
    ELSE RatInt(0)

RECURSIVE RatSeqSum(_)
RatSeqSum(q) == IF q = <<>> THEN RatInt(0) ELSE RatAdd(Head(q), RatSeqSum(Tail(q)))

MeanOf(q) == RatDiv(RatSeqSum(q), RatInt(Len(q)))

LevelOfMean(mean) ==
    IF RatLt(mean, RatInt(30)) THEN "early"
    ELSE IF RatLt(mean, RatInt(70)) THEN "middle"
    ELSE "late"

\* C18: updateRehabLevel sets the level from the mean good percentage of the last 7
\* entries only: early below 30, middle from 30 to below 70, late from 70; an empty or
\* missing history gives early.
C18_Classification ==
    acall.op = "updateRehabLevel" =>
        LET h == acall.history IN
        IF ~h.given \/ Len(h.data) = 0 THEN manager.rehabLevel = "early"
        ELSE LET recent == LastEntries(h.data)
             IN  manager.rehabLevel =
                    LevelOfMean(MeanOf([i \in DOMAIN recent |-> GoodPercentageOf(recent[i])]))

\* the classification of the mean of the percentages updateRehabLevel counted, which
\* holds: it takes the mean over the last 7 entries and classifies it at 30 and 70
ClassifiesCountedMean ==
    acall.op = "updateRehabLevel" =>
        LET h == acall.history IN
        /\ (~h.given \/ Len(h.data) = 0) => manager.rehabLevel = "early"
        /\ (h.given /\ Len(h.data) > 0) =>
                /\ Len(acall.percents) = MinOf(Len(h.data), RECENT_ENTRIES)
                /\ manager.rehabLevel = LevelOfMean(MeanOf(acall.percents))
        /\ (h.given /\ Len(h.data) = RECENT_ENTRIES
                /\ \A i \in DOMAIN h.data : h.data[i] = Entry(TRUE, 80, 0, 0, 0, 0)) =>
                manager.rehabLevel = "late"

\* C19: the percentage updateRehabLevel counts for an entry is the summary's
\* goodPercentage when the entry has a summary, and otherwise 100 * good / (good + bad)
\* from the time counts or the frame counts the entry carries.
C19_EntryPercentage ==
    acall.op = "updateRehabLevel" =>
        LET recent == LastEntries(acall.history.data)
        IN  \A i \in DOMAIN acall.percents : acall.percents[i] = GoodPercentageOf(recent[i])

\* C20: in side view each angle is computed from its own landmarks alone: the neck
\* angle is the fusion of the shoulder-ear and shoulder-nose pairs that are valid, whatever
\* the hips are, the torso angle is the fusion of the hip-shoulder pairs that are valid,
\* whatever the ears and the nose are, a valid right-side pair counts when the left-side
\* landmark is invalid, and an angle is 0 when none of its pairs is valid.
C20_PerMetricValidity ==
    spcall.op = "done" =>
        /\ IsMedianOfPositives(spcall.ret.neckAngle, Estimates(spcall.frame, "neck"))
        /\ IsMedianOfPositives(spcall.ret.torsoAngle, Estimates(spcall.frame, "torso"))

\* C21: no core operation returns NaN or raises on a degenerate numeric input:
\* calculateAnglePrecise returns 0 when a vector has no length (or a point is
\* missing), and the two scoring functions given a threshold equal to 0 return a
\* numeric score in [0, 1] and a numeric percentage
C21_DegenerateNumeric ==
    /\ (gcall.op = "done" /\ (Undefined \in {gcall.p1, gcall.p2, gcall.p3}
                              \/ gcall.p2 = gcall.p1 \/ gcall.p3 = gcall.p1))
            => gcall.ret = 0
    /\ sccall.op = "done"
            => /\ sccall.ret.score # NaN
               /\ RatLe(RatInt(0), sccall.ret.score) /\ RatLe(sccall.ret.score, One)
               /\ sccall.ret.percentage \in 0..100

\* the part of C21 about calculateAnglePrecise alone
AngleDegenerateZero ==
    (gcall.op = "done" /\ (Undefined \in {gcall.p1, gcall.p2, gcall.p3}
                           \/ gcall.p2 = gcall.p1 \/ gcall.p3 = gcall.p1))
        => gcall.ret = 0

\* a threshold of 0 yields NaN only for a value of 0
ZeroThresholdNaN ==
    sccall.op = "done" /\ sccall.fn = "side"
        => (sccall.ret.score = NaN
                <=> \/ sccall.thresholds.neck = 0 /\ sccall.metrics.neckAngle = 0
                    \/ sccall.thresholds.torso = 0 /\ sccall.metrics.torsoAngle = 0)

\* C23: analyzeFrontPosture called with its default arguments scores shoulder, hip
\* and head tilt against the shoulder, hip and head limits of the active profile
C23_ProfileLimits ==
    (fpcall.op = "done" /\ fpcall.shoulderArg = <<>> /\ fpcall.headArg = <<>>
        /\ "limits" \in DOMAIN fpcall.ret)
        => /\ fpcall.ret.limits.shoulder = SCI_THRESHOLDS[currentThresholdMode].shoulder
           /\ fpcall.ret.limits.hip = SCI_THRESHOLDS[currentThresholdMode].hip
           /\ fpcall.ret.limits.head = SCI_THRESHOLDS[currentThresholdMode].head

\* with its default arguments analyzeFrontPosture scores against 30 / 25 / 25 under
\* every profile
FrontLimitsFixed ==
    (fpcall.op = "done" /\ fpcall.shoulderArg = <<>> /\ fpcall.headArg = <<>>
        /\ "limits" \in DOMAIN fpcall.ret)
        => /\ fpcall.ret.limits.shoulder = FRONT_SHOULDER_THRESHOLD_DEFAULT
           /\ fpcall.ret.limits.hip = FRONT_HIP_THRESHOLD
           /\ fpcall.ret.limits.head = FRONT_HEAD_THRESHOLD_DEFAULT

\* a tilt reported as an issue exceeds the active profile's limit
FrontIssueAboveProfileLimit ==
    (fpcall.op = "done" /\ fpcall.shoulderArg = <<>> /\ "limits" \in DOMAIN fpcall.ret
        /\ \E i \in DOMAIN fpcall.ret.issues :
                fpcall.ret.issues[i] \in {"Left shoulder higher", "Right shoulder higher"})
        => fpcall.ret.shoulderTilt > SCI_THRESHOLDS[currentThresholdMode].shoulder

\* the state evaluate leaves, from the state before, the two inputs, the two thresholds
\* and the hysteresis
StateAfter(pre, neckAngle, torsoAngle, n, t, hy) ==
    IF pre = "good"
    THEN (IF neckAngle >= n + hy \/ torsoAngle >= t + hy THEN "bad" ELSE "good")
    ELSE (IF neckAngle < n - hy /\ torsoAngle < t - hy THEN "good" ELSE "bad")

\* the side-view result r was computed with the neck limit, the torso limit and the
\* population mode of profile m
SideWholly(r, m) ==
    LET sr == calculatePostureScoreSide(
                [neckAngle |-> HalfDegrees(r.neckAngle),
                 torsoAngle |-> HalfDegrees(r.torsoAngle)],
                [neck |-> 2 * SCI_THRESHOLDS[m].neck, torso |-> 2 * SCI_THRESHOLDS[m].torso],
                m # "standard")
    IN  /\ r.score = sr.score
        /\ r.isGoodPosture = sr.isGood
        /\ ("Neck forward tilt" \in {r.issues[i] : i \in DOMAIN r.issues}
                <=> RatLe(RatInt(SCI_THRESHOLDS[m].neck), r.neckAngle))
        /\ ("Torso forward lean" \in {r.issues[i] : i \in DOMAIN r.issues}
                <=> RatLe(RatInt(SCI_THRESHOLDS[m].torso), r.torsoAngle))

SwapEvaluated ==
    /\ hcall.op = "evaluate" /\ hcall.pre = "good" /\ hyst.currentState = "good"
    /\ hyst.neckThreshold # DEFAULT_NECK_THRESHOLD
    /\ hcall.neck >= DEFAULT_NECK_THRESHOLD + HYSTERESIS_VALUE
    /\ hcall.torso >= DEFAULT_TORSO_THRESHOLD + HYSTERESIS_VALUE

\* C24: the value evaluate returns is true iff currentState is good afterwards,
\* currentState is always good or bad, and the state after evaluate is determined by
\* the state before, the two inputs, the thresholds and the hysteresis
C24_ReturnIsState ==
    /\ hyst.currentState \in {"good", "bad"}
    /\ [][/\ hyst'.currentState \in {"good", "bad"}
           /\ hcall'.op = "evaluate"
                => /\ hcall'.ret = (hyst'.currentState = "good")
                   /\ hyst'.currentState =
                        StateAfter(hyst.currentState, hcall'.neck, hcall'.torso,
                                   hyst.neckThreshold, hyst.torsoThreshold,
                                   hyst.hysteresis)]_vars

\* evaluate has returned false on leaving good, and true on leaving bad at another time
C24_Witness ==
    /\ hcall.op = "evaluate" /\ hcall.pre = "bad" /\ hcall.ret
    /\ hyst.currentState = "good"
    /\ hyst.neckThreshold # DEFAULT_NECK_THRESHOLD

\* C25: for a fixed weight and threshold the per-metric contribution is non-increasing
\* in the value, in the side-view and in the front-view function: of two values scored,
\* the larger never earns more, and the threshold itself never earns more than a value
\* just below it
C25_NonIncreasing ==
    LET s == pcall.scores IN
    \A p \in DOMAIN s, q \in DOMAIN s :
        PointValue(p, pcall.threshold) <= PointValue(q, pcall.threshold)
            => RatLe(s[q], s[p])

\* the contribution is non-increasing over the values other than the threshold itself
NonIncreasingOffThreshold ==
    LET s == pcall.scores IN
    \A p \in DOMAIN s \ {"at"}, q \in DOMAIN s \ {"at"} :
        PointValue(p, pcall.threshold) <= PointValue(q, pcall.threshold)
            => RatLe(s[q], s[p])

\* a value at the threshold earns the whole weight
WholeWeightAtThreshold ==
    "at" \in DOMAIN pcall.scores => pcall.scores["at"] = pcall.weight

\* C26: analyzeSidePosture never reports good posture together with a detected problem:
\* when isGoodPosture is true the issues list is empty, the neck angle is below the
\* active neck limit and the torso angle below the active torso limit; with invalid
\* required landmarks isGoodPosture is false
C26_GoodMeansNoIssue ==
    spcall.op = "done" =>
        LET r == spcall.ret
            required == {"lShoulder", "lEar", "lHip"}
        IN  /\ (r.isGoodPosture /\ currentThresholdMode \in ModeNames)
                    => /\ r.issues = <<>>
                       /\ RatLt(r.neckAngle, RatInt(SCI_THRESHOLDS[currentThresholdMode].neck))
                       /\ RatLt(r.torsoAngle,
                                RatInt(SCI_THRESHOLDS[currentThresholdMode].torso))
            /\ (\E l \in required : ~isLandmarkValid(spcall.frame.visibility[l]))
                    => ~r.isGoodPosture

\* the part of C26 about invalid landmarks
InvalidLandmarksNotGood ==
    (spcall.op = "done"
        /\ \E l \in {"lShoulder", "lEar", "lHip"} :
                ~isLandmarkValid(spcall.frame.visibility[l]))
        => ~spcall.ret.isGoodPosture

\* an issue is listed exactly when an angle is at or above its active limit
IssuesFollowLimits ==
    (spcall.op = "done" /\ "score" \in DOMAIN spcall.ret /\ currentThresholdMode \in ModeNames)
        => LET r == spcall.ret
               t == SCI_THRESHOLDS[currentThresholdMode]
           IN  (r.issues = <<>>)
                    <=> (RatLt(r.neckAngle, RatInt(t.neck))
                            /\ RatLt(r.torsoAngle, RatInt(t.torso)))

\* C27: for every history the level set by AdaptiveThresholdManager.updateRehabLevel
\* equals the stage returned by RehabilitationDashboard.getCurrentRehabStage
C27_ClassifiersAgree ==
    (acall.op = "updateRehabLevel" /\ dcall.op = "done" /\ acall.history = dcall.history)
        => manager.rehabLevel = dcall.ret

\* the two classifiers agree on a history of seven or more entries with summaries
\* whose mean is below 30 or at least 40
AgreeOffTheGap ==
    (acall.op = "updateRehabLevel" /\ dcall.op = "done"
        /\ Len(dcall.history.data) >= RECENT_ENTRIES
        /\ \A i \in DOMAIN dcall.history.data :
                dcall.history.data[i].hasSummary /\ dcall.history.data[i].goodPercentage # 30)
        => manager.rehabLevel = dcall.ret

\* C28: two delivered alerts are never less than 10 seconds apart; checkPostureAlert
\* delivers no alert before 2 seconds of consecutive bad frames have accumulated, and
\* the severe alert only when the accumulated bad time is at least alertInterval
\* seconds; a good frame resets the timer and clears shouldAlert
C28_CooldownEscalation ==
    /\ Len(alog) = 2 => alog[2].time - alog[1].time >= ALERT_COOLDOWN
    /\ \A i \in DOMAIN alog :
            alog[i].by = "check"
                => /\ alog[i].seconds >= 2
                   /\ alog[i].level = "severe" => alog[i].seconds >= alert.alertInterval

\* the parts of C28 other than the distance between two alerts
EscalationOnly ==
    \A i \in DOMAIN alog :
        alog[i].by = "check"
            => /\ alog[i].seconds >= 2
               /\ alog[i].level = "severe" => alog[i].seconds >= alert.alertInterval

\* two delivered alerts are at least 10 seconds less the clock's movement inside one
\* handler apart
CooldownLessSkew ==
    Len(alog) = 2 => alog[2].time - alog[1].time >= ALERT_COOLDOWN - MaxSkew

\* a severe alert has been delivered by checkPostureAlert
SevereDelivered == \E i \in DOMAIN alog : alog[i].level = "severe" /\ alog[i].by = "check"

\* the record a saveHistory call was given
SavedRecord == [id |-> hscall.id, startTime |-> hscall.now]

RejectedSaveReached ==
    /\ hscall.op = "saveHistory"
    /\ hscall.first = "QuotaExceededError"
    /\ hscall.handed = <<>>
    /\ historyState # <<>>

\* a saveHistory call dropped a record older than 30 days
OldRecordDropped ==
    /\ hscall.op = "saveHistory"
    /\ hscall.first = "ok"
    /\ Len(historyState) <= Len(hscall.pre.historyState)

\* a stored text that does not parse was loaded
BrokenItemLoaded ==
    /\ hscall.op = "loadHistory"
    /\ ~hscall.throws
    /\ hscall.pre.postureHistory = BrokenItem

\* the milestones marked achieved by the last updateMilestones call
NewlyAchieved ==
    {name \in MilestoneNames :
        mlcall.op = "updateMilestones" /\ milestones[name].achieved
            /\ ~mlcall.pre[name].achieved}

\* the history has a record with good percentage >= 50 on each of k calendar days in a row
HasGoodRun(data, k) ==
    \E i \in 1 .. Len(data) :
        \A j \in 0 .. k - 1 : hasGoodPosture(data, dateKey(data[i]) - j)

\* the history has a record with good percentage >= 50 on each of k dates
HasGoodDates(data, k) ==
    Cardinality({dateKey(data[i]) : i \in {j \in 1 .. Len(data) :
                    hasGoodPosture(data, dateKey(data[j]))}}) >= k

\* once achieved, a milestone stays achieved with its date, and gold implies silver
\* implies bronze
MilestonesLast ==
    /\ mlcall.op = "updateMilestones" =>
          \A name \in MilestoneNames :
              mlcall.pre[name].achieved =>
                  milestones[name].achieved /\ milestones[name].date = mlcall.pre[name].date
    /\ milestones.gold.achieved => milestones.silver.achieved
    /\ milestones.silver.achieved => milestones.bronze.achieved

\* C30: updateMilestones marks bronze, silver, gold achieved only when the history has 3,
\* 7, 30 consecutive calendar days each with a record of good percentage >= 50; an
\* achieved milestone is not cleared or re-dated by a later updateMilestones call; and
\* gold achieved implies silver achieved implies bronze achieved.
C30_ConsecutiveDays ==
    /\ \A name \in NewlyAchieved :
          HasGoodRun(mlcall.history.data, milestones[name].days)
    /\ MilestonesLast

\* what the count of updateMilestones ensures: a milestone is marked only when the
\* history has good records on as many dates as its days, adjacent or not
AchievedOnGoodDates ==
    \A name \in NewlyAchieved :
        /\ HasGoodDates(mlcall.history.data, milestones[name].days)
        /\ milestones[name].date = <<mlcall.now>>

\* gold was achieved on a later day than silver, by a dashboard constructed from the store
GoldReached ==
    /\ milestones.gold.achieved
    /\ milestones.gold.date # milestones.silver.date
    /\ mlcall.op = "constructor"

====
